---- MODULE Spec2Model ----
(***************************************************************************)
(* Model of the Understat shot scraper (scripts/fetch_understat.py and     *)
(* scripts/understat_shots.py): the outcome, match and shot normalizers,   *)
(* the hydration-blob search, the two fetchers and the orchestrator main.  *)
(*                                                                         *)
(* Python values are tagged records, the payload field named by the type:  *)
(*   [t |-> "null"] (None, also "absent"), [t |-> "bool", b |-> ...],      *)
(*   "int" i, "float" f, "str" s, "arr" a, "obj" o.                        *)
(* A str payload is a sequence of one-character strings; an int payload    *)
(* is an integer, one that TLC can hold (below 2^31 in size); a float      *)
(* payload is an IEEE-754 double, see below; an obj payload is the         *)
(* sequence of its [k, v] pairs in stored order (dict order), keys unique. *)
(***************************************************************************)
EXTENDS Integers, Sequences, FiniteSets, TLC

VARIABLES
    variant,    \* the script run: "fetch_understat" or "understat_shots"
    pc,         \* where main is
    args,       \* the parsed command line: from_round, to_round, limit_matches
    html,       \* the league page the site serves
    matches,    \* main's `matches`
    idx,        \* the position of the loop over matches
    served,     \* the match pages the site has served, in request order
    all_rows,   \* main's `all_rows`
    warnings,   \* the match ids of the "[warn] match ... skipped" lines
    events,     \* the requests, sleeps, warnings and writes, in order
    result,     \* how the run ended, "none" while it runs
    persisted,  \* the rows written to the CSV
    op, inp, out \* a single call of one function: its name, input, result

vars == <<variant, pc, args, html, matches, idx, served, all_rows, warnings,
          events, result, persisted, op, inp, out>>

mainVars == <<variant, args, html, matches, idx, served, all_rows, warnings,
              events, result, persisted>>

fnVars == <<op, inp, out>>

(***************************************************************************)
(* Characters and strings                                                  *)
(***************************************************************************)
\* The characters of the model, in code-point order.
Chars ==
    << " ", "+", "-", ".",
       "0", "1", "2", "3", "4", "5", "6", "7", "8", "9",
       "A", "B", "C", "D", "E", "F", "G", "H", "I", "J", "K", "L", "M",
       "N", "O", "P", "Q", "R", "S", "T", "U", "V", "W", "X", "Y", "Z",
       "_",
       "a", "b", "c", "d", "e", "f", "g", "h", "i", "j", "k", "l", "m",
       "n", "o", "p", "q", "r", "s", "t", "u", "v", "w", "x", "y", "z",
       "²" >>

\* ord(c), counted from the first character of the model
OrdMap == [c \in {Chars[i] : i \in 1..Len(Chars)} |->
              CHOOSE i \in 1..Len(Chars) : Chars[i] = c]

Ord(c) == OrdMap[c]

Digits == {"0", "1", "2", "3", "4", "5", "6", "7", "8", "9"}

IsDigit(c) == c \in Digits

\* the characters str.isdigit() takes for digits: the superscript two is
\* one, though int() and float() do not read it
DigitChars == Digits \cup {"²"}

IsUpper(c) == Ord(c) >= Ord("A") /\ Ord(c) <= Ord("Z")

\* str.lower() on one character
LowerChar(c) == IF IsUpper(c) THEN Chars[Ord(c) + (Ord("a") - Ord("A"))] ELSE c

\* str.lower()
StrLower(s) == [i \in 1..Len(s) |-> LowerChar(s[i])]

\* str.replace(" ", "_")
StrReplaceSpace(s) == [i \in 1..Len(s) |-> IF s[i] = " " THEN "_" ELSE s[i]]

\* Python's < on two str values: lexicographic by code point.
RECURSIVE StrLess(_, _)
StrLess(a, b) ==
    IF b = <<>> THEN FALSE
    ELSE IF a = <<>> THEN TRUE
    ELSE IF Head(a) = Head(b) THEN StrLess(Tail(a), Tail(b))
    ELSE Ord(Head(a)) < Ord(Head(b))

RECURSIVE LStrip(_)
LStrip(s) == IF s # <<>> /\ Head(s) = " " THEN LStrip(Tail(s)) ELSE s

RECURSIVE RStrip(_)
RStrip(s) ==
    IF s # <<>> /\ s[Len(s)] = " " THEN RStrip(SubSeq(s, 1, Len(s) - 1)) ELSE s

\* str.strip() for the blank of the model's alphabet
Strip(s) == RStrip(LStrip(s))

(***************************************************************************)
(* Python floats: IEEE-754 binary64, round to nearest, ties to even        *)
(* A natural number is the sequence of its limbs in base LimbBase, the     *)
(* least significant first, no leading zero limb: <<>> is 0.  A float is   *)
(* [k, neg, m, q]: k = "fin" is the number (-1)^neg * m * 2^q, m a natural *)
(* that is odd, or zero with q = 0; k = "inf" is the infinity of sign neg; *)
(* k = "nan" is not-a-number.                                              *)
(***************************************************************************)
LimbBits == 15
LimbBase == 32768

\* the precision in bits, the exponent of the least subnormal, and the
\* exponent no finite double reaches
DBL_MANT_DIG == 53
DBL_MIN_Q == -1074
DBL_MAX_EXP == 1024

Min(a, b) == IF a <= b THEN a ELSE b
Max(a, b) == IF a >= b THEN a ELSE b

RECURSIVE Pow2(_)
Pow2(n) == IF n = 0 THEN 1 ELSE 2 * Pow2(n - 1)

Limb0(a) == IF a = <<>> THEN 0 ELSE Head(a)
Rest(a) == IF a = <<>> THEN <<>> ELSE Tail(a)

\* a * k + c, for 0 < k <= LimbBase and 0 <= c < LimbBase
RECURSIVE BigMulAdd(_, _, _)
BigMulAdd(a, k, c) ==
    IF a = <<>> THEN (IF c = 0 THEN <<>> ELSE <<c>>)
    ELSE <<(Head(a) * k + c) % LimbBase>>
         \o BigMulAdd(Tail(a), k, (Head(a) * k + c) \div LimbBase)

\* [q, r] with a = q * k + r, the limbs of a taken from the top
RECURSIVE BigDivLoop(_, _, _, _)
BigDivLoop(a, k, q, r) ==
    IF a = <<>> THEN [q |-> q, r |-> r]
    ELSE BigDivLoop(SubSeq(a, 1, Len(a) - 1), k,
                    IF q = <<>> /\ (r * LimbBase + a[Len(a)]) \div k = 0
                    THEN <<>>
                    ELSE <<(r * LimbBase + a[Len(a)]) \div k>> \o q,
                    (r * LimbBase + a[Len(a)]) % k)

\* a divided by k, for 0 < k <= LimbBase: [q, r]
BigDivMod(a, k) == BigDivLoop(a, k, <<>>, 0)

RECURSIVE BigTrim(_)
BigTrim(a) ==
    IF a # <<>> /\ a[Len(a)] = 0 THEN BigTrim(SubSeq(a, 1, Len(a) - 1)) ELSE a

\* a + b + c, for a carry c
RECURSIVE BigAdd(_, _, _)
BigAdd(a, b, c) ==
    IF a = <<>> /\ b = <<>> THEN (IF c = 0 THEN <<>> ELSE <<c>>)
    ELSE <<(Limb0(a) + Limb0(b) + c) % LimbBase>>
         \o BigAdd(Rest(a), Rest(b), (Limb0(a) + Limb0(b) + c) \div LimbBase)

RECURSIVE BigSubLoop(_, _, _)
BigSubLoop(a, b, c) ==
    IF a = <<>> THEN <<>>
    ELSE <<(Head(a) - Limb0(b) - c + LimbBase) % LimbBase>>
         \o BigSubLoop(Tail(a), Rest(b), IF Head(a) - Limb0(b) - c < 0 THEN 1 ELSE 0)

\* a - b, for a >= b
BigSub(a, b) == BigTrim(BigSubLoop(a, b, 0))

\* -1, 0 or 1 as a is less than, equal to or greater than b
BigCmp(a, b) ==
    IF Len(a) # Len(b) THEN (IF Len(a) < Len(b) THEN -1 ELSE 1)
    ELSE LET d == {i \in 1..Len(a) : a[i] # b[i]}
         IN  IF d = {} THEN 0
             ELSE IF a[CHOOSE i \in d : \A j \in d : j <= i]
                     < b[CHOOSE i \in d : \A j \in d : j <= i]
             THEN -1
             ELSE 1

RECURSIVE SmallBits(_)
SmallBits(n) == IF n = 0 THEN 0 ELSE 1 + SmallBits(n \div 2)

\* the number of bits of a
BitLen(a) ==
    IF a = <<>> THEN 0 ELSE LimbBits * (Len(a) - 1) + SmallBits(a[Len(a)])

\* a * 2^n
BigShl(a, n) ==
    IF a = <<>> THEN <<>>
    ELSE [i \in 1..(n \div LimbBits) |-> 0] \o BigMulAdd(a, Pow2(n % LimbBits), 0)

\* the quotient d.q and whether something nonzero was dropped
WithSticky(d, sticky) == [q |-> d.q, sticky |-> sticky \/ d.r # 0]

\* the limbs of a above the lowest w, divided by k: [q, sticky]
ShrLimbs(a, w, k) ==
    WithSticky(BigDivMod(SubSeq(a, w + 1, Len(a)), k), \E i \in 1..w : a[i] # 0)

\* floor(a / 2^n): [q, sticky]
BigShr(a, n) == ShrLimbs(a, Min(n \div LimbBits, Len(a)), Pow2(n % LimbBits))

\* d.q + d.r / 2 rounded to nearest, ties to even, something more than
\* d.r / 2 having been dropped when sticky
RoundHalfEven(d, sticky) ==
    IF d.r = 1 /\ (sticky \/ Limb0(d.q) % 2 = 1) THEN BigMulAdd(d.q, 1, 1) ELSE d.q

\* h.q / 2 rounded, h the number shifted by one bit less
RoundShifted(h, sticky) == RoundHalfEven(BigDivMod(h.q, 2), h.sticky \/ sticky)

\* a / 2^s rounded to nearest, ties to even; a itself for s <= 0
BigRoundShr(a, s, sticky) ==
    IF s <= 0 THEN a ELSE RoundShifted(BigShr(a, s - 1), sticky)

Zero(neg) == [k |-> "fin", neg |-> neg, m |-> <<>>, q |-> 0]
Inf(neg) == [k |-> "inf", neg |-> neg, m |-> <<>>, q |-> 0]
NaN == [k |-> "nan", neg |-> FALSE, m |-> <<>>, q |-> 0]

\* the float m * 2^q with the factors of two moved out of m
RECURSIVE Canon(_, _, _)
Canon(neg, m, q) ==
    IF m = <<>> THEN Zero(neg)
    ELSE IF Head(m) = 0 THEN Canon(neg, Tail(m), q + LimbBits)
    ELSE IF Head(m) % 2 = 1 THEN [k |-> "fin", neg |-> neg, m |-> m, q |-> q]
    ELSE Canon(neg, BigDivMod(m, 2).q, q + 1)

\* m * 2^q, m of at most DBL_MANT_DIG bits: an infinity when it overflows
Finish(neg, m, q) ==
    IF BitLen(m) + q > DBL_MAX_EXP THEN Inf(neg) ELSE Canon(neg, m, q)

\* n * 2^e with the lowest s bits of n rounded away
RoundTo(neg, n, e, sticky, s) ==
    Finish(neg, BigRoundShr(n, s, sticky), e + Max(s, 0))

\* the double nearest to n * 2^e (a little more when sticky): n is cut to
\* DBL_MANT_DIG bits, to fewer in the subnormal range
MakeDbl(neg, n, e, sticky) ==
    RoundTo(neg, n, e, sticky, Max(BitLen(n) - DBL_MANT_DIG, DBL_MIN_Q - e))

RECURSIVE BigMulPow10(_, _)
BigMulPow10(a, n) ==
    IF n = 0 THEN a
    ELSE IF n >= 4 THEN BigMulPow10(BigMulAdd(a, 10000, 0), n - 4)
    ELSE BigMulPow10(BigMulAdd(a, 10, 0), n - 1)

\* floor(a / 10^n): [q, sticky]
RECURSIVE BigDivPow10(_, _, _)
DivStep(d, n, sticky) == BigDivPow10(d.q, n, sticky \/ d.r # 0)
BigDivPow10(a, n, sticky) ==
    IF n = 0 THEN [q |-> a, sticky |-> sticky]
    ELSE IF n >= 4 THEN DivStep(BigDivMod(a, 10000), n - 4, sticky)
    ELSE DivStep(BigDivMod(a, 10), n - 1, sticky)

QuotDbl(neg, d, e) == MakeDbl(neg, d.q, e, d.sticky)

\* d * 10^e as a quotient times 2^-GuardBits(e): for e < 0 the quotient
\* keeps more than 64 bits, so that the rounding sees every dropped bit
GuardBits(e) == IF e >= 0 THEN 0 ELSE 64 + 4 * (-e)

Scaled(d, e) ==
    IF e >= 0 THEN [q |-> BigMulPow10(d, e), sticky |-> FALSE]
    ELSE BigDivPow10(BigShl(d, GuardBits(e)), -e, FALSE)

\* the double nearest to d * 10^e (strtod)
DecToDbl(neg, d, e) == QuotDbl(neg, Scaled(d, e), -GuardBits(e))

RECURSIVE BigOfInt(_)
BigOfInt(n) ==
    IF n = 0 THEN <<>> ELSE <<n % LimbBase>> \o BigOfInt(n \div LimbBase)

RECURSIVE IntOfBig(_)
IntOfBig(a) == IF a = <<>> THEN 0 ELSE Head(a) + LimbBase * IntOfBig(Tail(a))

\* float(n) for an int n of less than DBL_MANT_DIG bits: exact
DblOfInt(n) == Canon(n < 0, BigOfInt(IF n < 0 THEN -n ELSE n), 0)

\* x * c for a float x and a whole number c > 0
DblTimes(x, c) ==
    IF x.k # "fin" THEN x ELSE MakeDbl(x.neg, BigMulAdd(x.m, c, 0), x.q, FALSE)

\* a * 2^e minus b * 2^e, b taken negative when bneg
DblDiff(a, b, bneg, e) ==
    MakeDbl(~bneg /\ BigCmp(a, b) < 0,
            IF bneg THEN BigAdd(a, b, 0)
            ELSE BigSub(IF BigCmp(a, b) >= 0 THEN a ELSE b,
                        IF BigCmp(a, b) >= 0 THEN b ELSE a),
            e, FALSE)

\* 1.0 - y
OneMinus(y) ==
    CASE y.k = "nan" -> NaN
      [] y.k = "inf" -> Inf(~y.neg)
      [] OTHER -> DblDiff(BigShl(<<1>>, -Min(0, y.q)),
                          BigShl(y.m, y.q - Min(0, y.q)), y.neg, Min(0, y.q))

\* round(x, ndigits) for ndigits >= 0: the decimal of ndigits places
\* nearest to x, ties to even, read back as a double
PyRound(x, ndigits) ==
    IF x.k # "fin" \/ x.q >= 0 THEN x
    ELSE DecToDbl(x.neg, BigRoundShr(BigMulPow10(x.m, ndigits), -x.q, FALSE),
                  -ndigits)

\* -1, 0 or 1 as x is less than, equal to or greater than y; neither is nan
DblSign(x) ==
    IF x.k = "fin" /\ x.m = <<>> THEN 0 ELSE IF x.neg THEN -1 ELSE 1

MagCmp(x, y) ==
    IF x.k = "inf" \/ y.k = "inf"
    THEN (IF x.k = y.k THEN 0 ELSE IF x.k = "inf" THEN 1 ELSE -1)
    ELSE BigCmp(BigShl(x.m, x.q - Min(x.q, y.q)), BigShl(y.m, y.q - Min(x.q, y.q)))

DblCmp(x, y) ==
    IF DblSign(x) # DblSign(y) THEN (IF DblSign(x) < DblSign(y) THEN -1 ELSE 1)
    ELSE DblSign(x) * MagCmp(x, y)

\* x == y and x < y on floats: false when either is nan
DblEq(x, y) == x.k # "nan" /\ y.k # "nan" /\ DblCmp(x, y) = 0
DblLess(x, y) == x.k # "nan" /\ y.k # "nan" /\ DblCmp(x, y) < 0

(***************************************************************************)
(* Python values                                                           *)
(***************************************************************************)
None == [t |-> "null"]
PyBool(b) == [t |-> "bool", b |-> b]
PyInt(n) == [t |-> "int", i |-> n]
PyFloat(x) == [t |-> "float", f |-> x]
PyStr(s) == [t |-> "str", s |-> s]
PyList(s) == [t |-> "arr", a |-> s]
PyDict(s) == [t |-> "obj", o |-> s]

EmptyStr == PyStr(<<>>)

\* x is None
IsNone(x) == x.t = "null"

\* bool(x): the truth value Python gives a value in `x or y` and `if x`
Truthy(x) ==
    CASE x.t = "null" -> FALSE
      [] x.t = "bool" -> x.b
      [] x.t = "int" -> x.i # 0
      [] x.t = "float" -> DblSign(x.f) # 0
      [] x.t = "str" -> x.s # <<>>
      [] x.t = "arr" -> x.a # <<>>
      [] x.t = "obj" -> x.o # <<>>

\* x or y
Or(x, y) == IF Truthy(x) THEN x ELSE y

\* key in d, for a dict d
HasKey(d, k) == \E i \in 1..Len(d.o) : d.o[i].k = k

\* d.get(k, default); the receiver must be a dict
GetD(d, k, default) ==
    IF HasKey(d, k)
    THEN d.o[CHOOSE i \in 1..Len(d.o) : d.o[i].k = k].v
    ELSE default

\* d.get(k)
Get(d, k) == GetD(d, k, None)

\* list(d.values())
Values(d) == [i \in 1..Len(d.o) |-> d.o[i].v]

(***************************************************************************)
(* Numeric coercion: int(x), float(x), str(x).isdigit()                    *)
(* A result is [ok |-> BOOLEAN, v |-> the value]; ok = FALSE is a raised   *)
(* ValueError, TypeError or OverflowError.                                 *)
(***************************************************************************)
Raised == [ok |-> FALSE, v |-> 0]
Ok(n) == [ok |-> TRUE, v |-> n]

\* A digit run as int() accepts it: digits, with single underscores
\* between digits.
DigitsOk(s) ==
    /\ s # <<>>
    /\ \A i \in 1..Len(s) :
          \/ IsDigit(s[i])
          \/ /\ s[i] = "_"
             /\ i > 1
             /\ i < Len(s)
             /\ IsDigit(s[i - 1])
             /\ IsDigit(s[i + 1])

RECURSIVE DigitsVal(_)
DigitsVal(s) ==
    IF s = <<>> THEN 0
    ELSE LET last == s[Len(s)]
             rest == SubSeq(s, 1, Len(s) - 1)
         IN  IF last = "_" THEN DigitsVal(rest)
             ELSE DigitsVal(rest) * 10 + (Ord(last) - Ord("0"))

HasSign(s) == s # <<>> /\ (s[1] = "+" \/ s[1] = "-")
Unsigned(s) == IF HasSign(s) THEN Tail(s) ELSE s
SignOf(s) == IF s # <<>> /\ s[1] = "-" THEN -1 ELSE 1

\* int(s) for a str s
IntOfStr(s) ==
    LET b == Unsigned(Strip(s))
    IN  IF DigitsOk(b) THEN Ok(SignOf(Strip(s)) * DigitsVal(b)) ELSE Raised

\* the characters of a run, underscores removed
RECURSIVE PlainDigits(_)
PlainDigits(s) ==
    IF s = <<>> THEN <<>>
    ELSE IF Head(s) = "_" THEN PlainDigits(Tail(s))
    ELSE <<Head(s)>> \o PlainDigits(Tail(s))

RECURSIVE StripZeros(_)
StripZeros(s) == IF s # <<>> /\ Head(s) = "0" THEN StripZeros(Tail(s)) ELSE s

\* the digits of s as a natural
RECURSIVE BigOfDigits(_, _)
BigOfDigits(s, acc) ==
    IF s = <<>> THEN acc
    ELSE BigOfDigits(Tail(s), BigMulAdd(acc, 10, Ord(Head(s)) - Ord("0")))

\* the value of an exponent's digits; one of more than five digits is far
\* beyond every double and counts as 99999
ExpVal(s) == IF Len(StripZeros(s)) > 5 THEN 99999 ELSE DigitsVal(StripZeros(s))

\* a decimal literal without sign and underscores: digits with at most one
\* point and at least one digit, then maybe e or E, maybe a sign, and
\* digits.  [ok, digits, e10]: the number is digits * 10^e10.
DecimalOf(u) ==
    LET es == {i \in 1..Len(u) : u[i] \in {"e", "E"}}
        p == IF es = {} THEN Len(u) + 1 ELSE CHOOSE i \in es : \A j \in es : i <= j
        mant == SubSeq(u, 1, p - 1)
        ex == SubSeq(u, p + 1, Len(u))
        dots == {i \in 1..Len(mant) : mant[i] = "."}
        d == IF dots = {} THEN Len(mant) + 1
             ELSE CHOOSE i \in dots : \A j \in dots : i <= j
        ip == SubSeq(mant, 1, d - 1)
        fp == SubSeq(mant, d + 1, Len(mant))
    IN  IF /\ \A i \in 1..Len(ip) : IsDigit(ip[i])
           /\ \A i \in 1..Len(fp) : IsDigit(fp[i])
           /\ ip \o fp # <<>>
           /\ es # {} => /\ Unsigned(ex) # <<>>
                         /\ \A i \in 1..Len(Unsigned(ex)) : IsDigit(Unsigned(ex)[i])
        THEN [ok |-> TRUE,
              digits |-> StripZeros(ip \o fp),
              e10 |-> (IF es = {} THEN 0 ELSE SignOf(ex) * ExpVal(Unsigned(ex)))
                      - Len(fp)]
        ELSE [ok |-> FALSE, digits |-> <<>>, e10 |-> 0]

\* the double of a decimal literal: an infinity from 10^310 on, zero below
\* 10^-330, else the nearest double
FloatOfDecimal(neg, d) ==
    IF ~d.ok THEN Raised
    ELSE IF d.digits = <<>> THEN Ok(Zero(neg))
    ELSE IF Len(d.digits) + d.e10 > 310 THEN Ok(Inf(neg))
    ELSE IF Len(d.digits) + d.e10 < -330 THEN Ok(Zero(neg))
    ELSE Ok(DecToDbl(neg, BigOfDigits(d.digits, <<>>), d.e10))

\* an underscore stands between two digits
UnderscoresOk(t) ==
    \A i \in 1..Len(t) :
        t[i] = "_" => i > 1 /\ i < Len(t) /\ IsDigit(t[i - 1]) /\ IsDigit(t[i + 1])

S_inf == <<"i", "n", "f">>
S_infinity == <<"i", "n", "f", "i", "n", "i", "t", "y">>
S_nan == <<"n", "a", "n">>

\* float(s) for a str s: blanks stripped, a sign, then inf, infinity or nan
\* in any case, or a decimal literal
FloatOfStr(s) ==
    LET t == Strip(s)
        neg == t # <<>> /\ t[1] = "-"
        w == StrLower(Unsigned(t))
    IN  IF w \in {S_inf, S_infinity} THEN Ok(Inf(neg))
        ELSE IF w = S_nan THEN Ok(NaN)
        ELSE IF ~UnderscoresOk(t) THEN Raised
        ELSE FloatOfDecimal(neg, DecimalOf(PlainDigits(Unsigned(t))))

\* int(x) for a float x: the whole part, toward zero; an infinity raises
\* OverflowError and a nan ValueError
IntOfDbl(x) ==
    IF x.k # "fin" THEN Raised
    ELSE Ok((IF x.neg THEN -1 ELSE 1)
            * IntOfBig(IF x.q >= 0 THEN BigShl(x.m, x.q) ELSE BigShr(x.m, -x.q).q))

\* float(x)
ToFloat(x) ==
    CASE x.t \in {"int", "bool"} ->
             Ok(DblOfInt(IF x.t = "int" THEN x.i ELSE IF x.b THEN 1 ELSE 0))
      [] x.t = "float" -> Ok(x.f)
      [] x.t = "str" -> FloatOfStr(x.s)
      [] OTHER -> Raised

\* int(x)
ToInt(x) ==
    CASE x.t = "int" -> Ok(x.i)
      [] x.t = "float" -> IntOfDbl(x.f)
      [] x.t = "bool" -> Ok(IF x.b THEN 1 ELSE 0)
      [] x.t = "str" -> IntOfStr(x.s)
      [] OTHER -> Raised

\* int(r), r the result of float(x)
IntOfResult(r) == IF r.ok THEN IntOfDbl(r.v) ELSE Raised

\* int(float(x))
IntOfFloat(x) == IntOfResult(ToFloat(x))

\* str(x).isdigit(): every character a digit, the superscript one among
\* them, and at least one character
StrIsDigit(x) ==
    CASE x.t = "int" -> x.i >= 0
      [] x.t = "str" -> x.s # <<>> /\ \A i \in 1..Len(x.s) : x.s[i] \in DigitChars
      [] OTHER -> FALSE

\* the float that json.loads reads from the number literal s
Flt(s) == FloatOfStr(s).v

(***************************************************************************)
(* Outcome Normalizer                                                      *)
(***************************************************************************)
S_goal == <<"g", "o", "a", "l">>
S_saved == <<"s", "a", "v", "e", "d">>
S_blocked == <<"b", "l", "o", "c", "k", "e", "d">>
S_missed == <<"m", "i", "s", "s", "e", "d">>
S_shot_on_post == <<"s", "h", "o", "t", "_", "o", "n", "_", "p", "o", "s", "t">>
S_off_target == <<"o", "f", "f", "_", "t", "a", "r", "g", "e", "t">>
S_unknown == <<"u", "n", "k", "n", "o", "w", "n">>

\* the lookup table of _normalize_outcome
OutcomeTable ==
    { <<S_goal, S_goal>>, <<S_saved, S_saved>>, <<S_blocked, S_blocked>>,
      <<S_missed, S_off_target>>, <<S_shot_on_post, S_off_target>> }

OutcomeKeys == {p[1] : p \in OutcomeTable}

\* _normalize_outcome(v): [ok, s]; ok = FALSE when `v or ""` is not a str
\* and .lower() raises AttributeError
\* _normalize_outcome with "unknown" as the default of the lookup
NormalizeOutcome_UnknownDefault(v) ==
    LET w == Or(v, EmptyStr)
    IN  IF w.t # "str" THEN [ok |-> FALSE, s |-> <<>>]
        ELSE LET k == StrReplaceSpace(StrLower(w.s))
             IN  [ok |-> TRUE,
                  s |-> IF k \in OutcomeKeys
                        THEN (CHOOSE p \in OutcomeTable : p[1] = k)[2]
                        ELSE S_unknown]

NormalizeOutcome(v) ==
    LET w == Or(v, EmptyStr)
    IN  IF w.t # "str" THEN [ok |-> FALSE, s |-> <<>>]
        ELSE LET k == StrReplaceSpace(StrLower(w.s))
             IN  [ok |-> TRUE,
                  s |-> IF k \in OutcomeKeys
                        THEN (CHOOSE p \in OutcomeTable : p[1] = k)[2]
                        ELSE IF k # <<>> THEN k ELSE S_unknown]

(***************************************************************************)
(* Iteration                                                               *)
(***************************************************************************)
\* a str met as a dict key while iterating the dict; only its type matters
PyKey(k) == [t |-> "key", k |-> k]

\* `for e in x`: [ok, v]; ok = FALSE is "object is not iterable"
Iter(x) ==
    CASE x.t = "arr" -> [ok |-> TRUE, v |-> x.a]
      [] x.t = "obj" -> [ok |-> TRUE, v |-> [i \in 1..Len(x.o) |-> PyKey(x.o[i].k)]]
      [] x.t = "str" -> [ok |-> TRUE, v |-> [i \in 1..Len(x.s) |-> PyStr(<<x.s[i]>>)]]
      [] OTHER -> [ok |-> FALSE, v |-> <<>>]

(***************************************************************************)
(* Match List Normalizer                                                   *)
(***************************************************************************)
\* rnd = int(rnd_raw) if rnd_raw is not None else None, None when int raises
RoundOf(rnd_raw, coerced) ==
    IF IsNone(rnd_raw) THEN None
    ELSE IF coerced.ok THEN PyInt(coerced.v)
    ELSE None

\* out.append({"id": mid, "round": rnd, "date": date}), unless int(id) raised
MatchOf(mid, rnd, date) ==
    IF ~mid.ok THEN <<>>
    ELSE << [id |-> mid.v, round |-> rnd, date |-> date] >>

\* a chain that stops at the first value that is not None
Or3_FirstPresent(a, b, c) ==
    IF ~IsNone(a) THEN a ELSE IF ~IsNone(b) THEN b ELSE c

\* the first truthy of three values, else the third: a or b or c
Or3(a, b, c) == Or(Or(a, b), c)

\* one pass of the loop body of _normalize_matches: <<>> when the record is
\* skipped (m.get or int(id) raises), else the one normalized match
NormalizeMatch(m) ==
    IF m.t # "obj" THEN <<>>
    ELSE MatchOf(ToInt(Get(m, "id")),
                 RoundOf(Or3(Get(m, "round"), Get(m, "round_number"), Get(m, "week")),
                         ToInt(Or3(Get(m, "round"), Get(m, "round_number"), Get(m, "week")))),
                 Or3(Get(m, "datetime"), Get(m, "date"), EmptyStr))

RECURSIVE NormalizeMatchSeq(_)
NormalizeMatchSeq(ms) ==
    IF ms = <<>> THEN <<>>
    ELSE NormalizeMatch(Head(ms)) \o NormalizeMatchSeq(Tail(ms))

\* _normalize_matches(matches): [ok, v]; ok = FALSE when `for m in matches`
\* raises
NormalizeMatches(ms) ==
    IF Iter(ms).ok THEN [ok |-> TRUE, v |-> NormalizeMatchSeq(Iter(ms).v)]
    ELSE [ok |-> FALSE, v |-> <<>>]

(***************************************************************************)
(* Shot List Normalizer                                                    *)
(***************************************************************************)
PITCH_LENGTH == 105
PITCH_WIDTH == 68

\* bool(int(v)), r the result of int(v)
BoolOf(r) == IF r.ok THEN Ok(r.v # 0) ELSE Raised

\* bool(int(s.get("isPenalty", 0))) if str(s.get("isPenalty", "0")).isdigit()
\* else False
IsPenalty(s) ==
    IF StrIsDigit(GetD(s, "isPenalty", PyStr(<<"0">>)))
    THEN BoolOf(ToInt(GetD(s, "isPenalty", PyInt(0))))
    ELSE Ok(FALSE)

\* int(v) as a value, r the result of int(v)
IntOf(r) == IF r.ok THEN Ok(PyInt(r.v)) ELSE Raised

\* int(s["player_id"]) if str(s.get("player_id", "")).isdigit() else None
PlayerId(s) ==
    IF StrIsDigit(GetD(s, "player_id", EmptyStr))
    THEN IntOf(ToInt(Get(s, "player_id")))
    ELSE Ok(None)

\* the row appended for the raw record s, the coercions done: <<>> when one
\* of them raised
ShotRow(match_id, s, x_norm, y_norm, minute, xg, outcome, is_penalty, player_id) ==
    IF ~(/\ x_norm.ok /\ y_norm.ok /\ minute.ok /\ xg.ok /\ outcome.ok
         /\ is_penalty.ok /\ player_id.ok)
    THEN <<>>
    ELSE << [match_id |-> match_id,
             date |-> Or(Get(s, "date"), EmptyStr),
             player |-> Or(Get(s, "player"), EmptyStr),
             team |-> Or(Get(s, "team"), EmptyStr),
             minute |-> minute.v,
             x |-> PyRound(DblTimes(x_norm.v, PITCH_LENGTH), 4),
             y |-> PyRound(DblTimes(OneMinus(y_norm.v), PITCH_WIDTH), 4),
             xg |-> xg.v,
             outcome |-> outcome.s,
             is_penalty |-> is_penalty.v,
             player_id |-> player_id.v,
             h_a |-> Or(Get(s, "h_a"), EmptyStr),
             situation |-> Or(Get(s, "situation"), EmptyStr),
             shotType |-> Or(Get(s, "shotType"), EmptyStr),
             assisted_by |-> Or(Get(s, "player_assisted"), EmptyStr),
             lastAction |-> Or(Get(s, "lastAction"), EmptyStr)] >>

\* the try block with s["x"] in place of s.get("x", 0.0), and so on: a
\* missing key raises
NormalizeShot_DropMissing(match_id, s) ==
    IF s.t # "obj" THEN <<>>
    ELSE IF \E f \in {"x", "y", "minute", "xG"} : ~HasKey(s, f) THEN <<>>
    ELSE ShotRow(match_id, s,
                 ToFloat(Get(s, "x")),
                 ToFloat(Get(s, "y")),
                 IntOfFloat(Get(s, "minute")),
                 ToFloat(Get(s, "xG")),
                 NormalizeOutcome(Get(s, "result")),
                 IsPenalty(s),
                 PlayerId(s))

\* the body of the try block of _normalize_shots for one raw record:
\* <<>> when anything in it raises (s.get on a non-dict, a coercion), else
\* the one row
NormalizeShot(match_id, s) ==
    IF s.t # "obj" THEN <<>>
    ELSE ShotRow(match_id, s,
                 ToFloat(GetD(s, "x", PyFloat(Zero(FALSE)))),
                 ToFloat(GetD(s, "y", PyFloat(Zero(FALSE)))),
                 IntOfFloat(GetD(s, "minute", PyInt(0))),
                 ToFloat(GetD(s, "xG", PyFloat(Zero(FALSE)))),
                 NormalizeOutcome(Get(s, "result")),
                 IsPenalty(s),
                 PlayerId(s))

RECURSIVE NormalizeShotSeq(_, _)
NormalizeShotSeq(match_id, ss) ==
    IF ss = <<>> THEN <<>>
    ELSE NormalizeShot(match_id, Head(ss)) \o NormalizeShotSeq(match_id, Tail(ss))

\* the rows of one side: [ok, v].  fetch_understat.py iterates
\* shots.get(side, []) whatever it is; understat_shots.py skips a side that
\* is not a list.
NormalizeSide(var, match_id, shots, side) ==
    LET arr == GetD(shots, side, PyList(<<>>))
    IN  IF var = "understat_shots" /\ arr.t # "arr" THEN [ok |-> TRUE, v |-> <<>>]
        ELSE IF ~Iter(arr).ok THEN [ok |-> FALSE, v |-> <<>>]
        ELSE [ok |-> TRUE, v |-> NormalizeShotSeq(match_id, Iter(arr).v)]

\* rows of side h then rows of side a, unless a side raised
JoinSides(h, a) ==
    IF h.ok /\ a.ok THEN [ok |-> TRUE, v |-> h.v \o a.v]
    ELSE [ok |-> FALSE, v |-> <<>>]

\* _normalize_shots(match_id, shots) of script `var`: [ok, v]; ok = FALSE
\* when it raises (shots has no .get, or a side is not iterable)
NormalizeShots(var, match_id, shots) ==
    IF shots.t # "obj" THEN [ok |-> FALSE, v |-> <<>>]
    ELSE JoinSides(NormalizeSide(var, match_id, shots, "h"),
                   NormalizeSide(var, match_id, shots, "a"))

(***************************************************************************)
(* Hydration-Blob Search                                                   *)
(* A predicate is data: the two shape predicates of the fetchers, or a     *)
(* table predicate [kind |-> "table", hit, raise] that is true on the      *)
(* nodes whose NodeKey is in hit and raises on those whose key is in       *)
(* raise.  ApplyPred gives "true", "false" or "raise".                     *)
(***************************************************************************)
NodeKey(x) ==
    CASE x.t = "arr" -> <<"arr", Len(x.a)>>
      [] x.t = "obj" -> <<"obj", Len(x.o)>>
      [] x.t = "null" -> <<"null", 0>>
      [] x.t = "int" -> <<"int", x.i>>
      [] OTHER -> <<"other", 0>>

\* looks_like_matches(x) of fetch_league_matches
LooksLikeMatches(x) ==
    /\ x.t = "arr"
    /\ Len(x.a) > 0
    /\ x.a[1].t = "obj"
    /\ HasKey(x.a[1], "id")
    /\ \E k \in {"round", "round_number", "week"} : HasKey(x.a[1], k)

\* looks_like_shots(x) of fetch_match_shots
LooksLikeShots(x) ==
    /\ x.t = "obj"
    /\ HasKey(x, "h")
    /\ HasKey(x, "a")
    /\ Get(x, "h").t = "arr"
    /\ Get(x, "a").t = "arr"

ApplyPred(p, x) ==
    CASE p.kind = "looks_like_matches" -> IF LooksLikeMatches(x) THEN "true" ELSE "false"
      [] p.kind = "looks_like_shots" -> IF LooksLikeShots(x) THEN "true" ELSE "false"
      [] OTHER -> IF NodeKey(x) \in p.raise THEN "raise"
                  ELSE IF NodeKey(x) \in p.hit THEN "true"
                  ELSE "false"

\* the children a node is descended into: dict values, list elements
Children(x) ==
    CASE x.t = "obj" -> Values(x)
      [] x.t = "arr" -> x.a
      [] OTHER -> <<>>

RECURSIVE DeepFindFirstA(_, _)
RECURSIVE FirstOfA(_, _)
\* the loops of _deep_find_first: the first child whose search is not None
FirstOfA(vs, p) ==
    IF vs = <<>> THEN None
    ELSE LET res == DeepFindFirstA(Head(vs), p)
         IN  IF ~IsNone(res) THEN res ELSE FirstOfA(Tail(vs), p)

\* _deep_find_first(obj, pred) of fetch_understat.py; a raising pred leaves
\* the try block, so the node's children are not searched
DeepFindFirstA(obj, p) ==
    LET r == ApplyPred(p, obj)
    IN  IF r = "raise" THEN None
        ELSE IF r = "true" THEN obj
        ELSE FirstOfA(Children(obj), p)

RECURSIVE DeepFindAll(_, _)
RECURSIVE AllOf(_, _)
AllOf(vs, p) ==
    IF vs = <<>> THEN <<>>
    ELSE DeepFindAll(Head(vs), p) \o AllOf(Tail(vs), p)

\* _deep_find_all(obj, pred) of understat_shots.py
DeepFindAll(obj, p) ==
    LET r == ApplyPred(p, obj)
    IN  IF r = "raise" THEN <<>>
        ELSE (IF r = "true" THEN <<obj>> ELSE <<>>) \o AllOf(Children(obj), p)

\* _deep_find_first(obj, pred) of understat_shots.py
DeepFindFirstB(obj, p) ==
    LET res == DeepFindAll(obj, p)
    IN  IF res # <<>> THEN res[1] ELSE None

\* _deep_find_first of script `var`
DeepFindFirst(var, obj, p) ==
    IF var = "fetch_understat" THEN DeepFindFirstA(obj, p) ELSE DeepFindFirstB(obj, p)

(***************************************************************************)
(* Pages and the JSON extractors                                           *)
(* A page is [get, fails, decls]: get = FALSE when the site never serves   *)
(* the page, fails is the number of attempts of _get that fail before the  *)
(* page is served (a status other than 200, an empty or foreign text, an   *)
(* exception of the request); decls are the declarations the regular expressions can match, in page   *)
(* order, each [form, key, text] with form "parse" (var key =              *)
(* JSON.parse('...');), "literal" (var key = {...}; or [...];) or "nuxt"   *)
(* (window.__NUXT__ = {...};).  A text is the Python value json.loads      *)
(* gives for it, or BadEscape (unicode_escape decoding raises, and the raw *)
(* text is no JSON either) or Invalid (json.loads raises).                 *)
(***************************************************************************)
\* max_retries of _get
MaxRetriesA == 6
MaxRetriesB == 7

MaxRetries(var) == IF var = "fetch_understat" THEN MaxRetriesA ELSE MaxRetriesB

\* _get(url) returns the page: one of its attempts is served
GetOk(var, page) == page.get /\ page.fails < MaxRetries(var)

BadEscape == [t |-> "badescape"]
\* the text of a JSON.parse('...') block that decodes to the empty string (a
\* backslash before a line end)
EmptyText == [t |-> "emptytext"]
Invalid == [t |-> "invalid"]

NoText == [st |-> "none", text |-> None]

\* the first declaration of the form and key, 0 when there is none
FirstDecl(page, form, key) ==
    LET hits == {i \in 1..Len(page.decls) :
                    page.decls[i].form = form /\ page.decls[i].key = key}
    IN  IF hits = {} THEN 0 ELSE CHOOSE i \in hits : \A j \in hits : i <= j

\* _extract_json_parse_block(html, key): st is "none" (returns None), "text"
\* or "raise".  fetch_understat.py lets the decoding error out;
\* understat_shots.py keeps the undecoded text.
ExtractJsonParseBlock(var, page, key) ==
    LET i == FirstDecl(page, "parse", key)
    IN  IF i = 0 THEN NoText
        ELSE IF page.decls[i].text.t = "badescape" /\ var = "fetch_understat"
        THEN [st |-> "raise", text |-> None]
        ELSE [st |-> "text", text |-> page.decls[i].text]

\* _extract_json_literal_block(html, key)
ExtractJsonLiteralBlock(page, key) ==
    LET i == FirstDecl(page, "literal", key)
    IN  IF i = 0 THEN NoText ELSE [st |-> "text", text |-> page.decls[i].text]

\* _extract_json_parse_block(html, key) or _extract_json_literal_block(html, key)
LegacyBlock_NoFallthrough(var, page, key) ==
    LET b == ExtractJsonParseBlock(var, page, key)
    IN  IF b.st = "none" THEN ExtractJsonLiteralBlock(page, key) ELSE b

\* the `or`: the literal block is taken when the parse block is None or the
\* empty string
LegacyBlock(var, page, key) ==
    LET b == ExtractJsonParseBlock(var, page, key)
    IN  IF b.st = "none" \/ (b.st = "text" /\ b.text.t = "emptytext")
        THEN ExtractJsonLiteralBlock(page, key)
        ELSE b

\* json.loads(text): [ok, v]
JsonLoads(text) ==
    IF text.t \in {"badescape", "invalid", "emptytext"} THEN [ok |-> FALSE, v |-> None]
    ELSE [ok |-> TRUE, v |-> text]

(***************************************************************************)
(* The text of a hydration blob, token by token.  A raw text is a sequence *)
(* of the tokens "{", "}", "[", "]", ",", ":", " ", "undefined", "null"    *)
(* and "k" (the string "foo" in its quotes).                               *)
(***************************************************************************)
\* the token at i, "" past the end
TokAt(toks, i) == IF i <= Len(toks) THEN toks[i] ELSE ""

\* the first place from i on that holds no white space
SkipWs(toks, i) ==
    CHOOSE j \in i..(Len(toks) + 1) :
        /\ TokAt(toks, j) # " "
        /\ \A h \in i..(j - 1) : toks[h] = " "

\* d[k] = v of a dict under construction: a repeated key keeps its place
SetKey(pairs, k, v) ==
    IF \E h \in 1..Len(pairs) : pairs[h].k = k
    THEN [h \in 1..Len(pairs) |->
             IF pairs[h].k = k THEN [k |-> k, v |-> v] ELSE pairs[h]]
    ELSE Append(pairs, [k |-> k, v |-> v])

PFail == [ok |-> FALSE, v |-> None, i |-> 0]

RECURSIVE ParseValue(_, _)
RECURSIVE ParseElems(_, _, _)
RECURSIVE ParseMembers(_, _, _)
\* the elements of an array from i on, acc those read so far
ParseElems(toks, i, acc) ==
    LET r == ParseValue(toks, i)
        j == SkipWs(toks, r.i)
    IN  IF ~r.ok THEN PFail
        ELSE IF TokAt(toks, j) = "," THEN ParseElems(toks, j + 1, Append(acc, r.v))
        ELSE IF TokAt(toks, j) = "]"
        THEN [ok |-> TRUE, v |-> PyList(Append(acc, r.v)), i |-> j + 1]
        ELSE PFail

\* the members of an object from i on, acc those read so far
ParseMembers(toks, i, acc) ==
    LET j == SkipWs(toks, i)
        c == SkipWs(toks, j + 1)
        r == ParseValue(toks, c + 1)
        e == SkipWs(toks, r.i)
    IN  IF TokAt(toks, j) # "k" \/ TokAt(toks, c) # ":" THEN PFail
        ELSE IF ~r.ok THEN PFail
        ELSE IF TokAt(toks, e) = ","
        THEN ParseMembers(toks, e + 1, SetKey(acc, "foo", r.v))
        ELSE IF TokAt(toks, e) = "}"
        THEN [ok |-> TRUE, v |-> PyDict(SetKey(acc, "foo", r.v)), i |-> e + 1]
        ELSE PFail

\* the JSON value that starts at i: [ok, v, i], i the place after it
ParseValue(toks, i) ==
    LET j == SkipWs(toks, i)
        t == TokAt(toks, j)
        n == SkipWs(toks, j + 1)
    IN  CASE t = "null" -> [ok |-> TRUE, v |-> None, i |-> j + 1]
          [] t = "k" -> [ok |-> TRUE, v |-> PyStr(<<"f", "o", "o">>), i |-> j + 1]
          [] t = "[" -> IF TokAt(toks, n) = "]"
                        THEN [ok |-> TRUE, v |-> PyList(<<>>), i |-> n + 1]
                        ELSE ParseElems(toks, j + 1, <<>>)
          [] t = "{" -> IF TokAt(toks, n) = "}"
                        THEN [ok |-> TRUE, v |-> PyDict(<<>>), i |-> n + 1]
                        ELSE ParseMembers(toks, j + 1, <<>>)
          [] OTHER -> PFail

\* json.loads(s) of a raw text: [ok, v]; one value and nothing after it
JsonLoadsRaw(toks) ==
    LET r == ParseValue(toks, 1)
    IN  IF r.ok /\ SkipWs(toks, r.i) = Len(toks) + 1 THEN [ok |-> TRUE, v |-> r.v]
        ELSE [ok |-> FALSE, v |-> None]

\* s.replace(": undefined", ": null")
RECURSIVE ReplaceUndefined(_)
ReplaceUndefined(toks) ==
    IF toks = <<>> THEN <<>>
    ELSE IF Len(toks) >= 3 /\ SubSeq(toks, 1, 3) = <<":", " ", "undefined">>
    THEN <<":", " ", "null">> \o ReplaceUndefined(SubSeq(toks, 4, Len(toks)))
    ELSE <<Head(toks)>> \o ReplaceUndefined(Tail(toks))

\* re.sub(r",\s*}", "}", s) for closer "}", re.sub(r",\s*]", "]", s) for "]"
RECURSIVE StripTrailing(_, _)
StripTrailing(toks, closer) ==
    IF toks = <<>> THEN <<>>
    ELSE IF Head(toks) = "," /\ TokAt(toks, SkipWs(toks, 2)) = closer
    THEN <<closer>> \o StripTrailing(SubSeq(toks, SkipWs(toks, 2) + 1, Len(toks)), closer)
    ELSE <<Head(toks)>> \o StripTrailing(Tail(toks), closer)

\* the body of _extract_nuxt_json after the match, s the matched text
RepairParse(s) ==
    IF JsonLoadsRaw(ReplaceUndefined(s)).ok THEN JsonLoadsRaw(ReplaceUndefined(s)).v
    ELSE IF JsonLoadsRaw(StripTrailing(StripTrailing(ReplaceUndefined(s), "}"), "]")).ok
    THEN JsonLoadsRaw(StripTrailing(StripTrailing(ReplaceUndefined(s), "}"), "]")).v
    ELSE None

\* _extract_nuxt_json(html): the parsed blob, or None.  The blob is a raw
\* text [t |-> "raw", toks], or stands for a text that parses as it is
\* (the value it parses to) or does not parse even when repaired (Invalid).
ExtractNuxtJson(page) ==
    LET i == FirstDecl(page, "nuxt", "__NUXT__")
    IN  IF i = 0 THEN None
        ELSE IF page.decls[i].text.t = "raw" THEN RepairParse(page.decls[i].text.toks)
        ELSE IF JsonLoads(page.decls[i].text).ok THEN page.decls[i].text
        ELSE None

(***************************************************************************)
(* The fetchers.  A result is [kind, v, path]: kind "ok" (v returned),     *)
(* "get_failed" (_get raised), "decode_error" (UnicodeDecodeError) or      *)
(* "cannot_find" (the RuntimeError of the last line); path is the          *)
(* extraction path that gave v.                                            *)
(***************************************************************************)
Fail(kind) == [kind |-> kind, v |-> <<>>, path |-> "none"]
Found(v, path) == [kind |-> "ok", v |-> v, path |-> path]

\* the try block `json.loads(data_str)` then normalize: [ok, v]
LoadMatches(text) ==
    IF JsonLoads(text).ok THEN NormalizeMatches(JsonLoads(text).v)
    ELSE [ok |-> FALSE, v |-> <<>>]

\* `if matches: return _normalize_matches(matches)` on what the search found
FoundMatches(found) ==
    IF ~Truthy(found) THEN [ok |-> FALSE, v |-> <<>>] ELSE NormalizeMatches(found)

\* the Nuxt fallback of fetch_league_matches: [ok, v]; ok = FALSE when it
\* falls through to the raise
NuxtMatches(var, page) ==
    IF ~Truthy(ExtractNuxtJson(page)) THEN [ok |-> FALSE, v |-> <<>>]
    ELSE FoundMatches(DeepFindFirst(var, ExtractNuxtJson(page),
                                    [kind |-> "looks_like_matches"]))

\* the legacy step of fetch_league_matches of fetch_understat.py: the block
\* of "matchesData", else that of "matches"
LegacyDataA(b1, b2) == IF b1.st = "none" THEN b2 ELSE b1

\* the try block on the legacy text: [ok, v]
LegacyMatchesA(data) ==
    IF data.st = "text" THEN LoadMatches(data.text) ELSE [ok |-> FALSE, v |-> <<>>]

\* what fetch_league_matches of fetch_understat.py returns or raises, given
\* the legacy block, its parse and the Nuxt fallback
PickMatchesA(data, legacy, nx) ==
    IF data.st = "raise" THEN Fail("decode_error")
    ELSE IF legacy.ok THEN Found(legacy.v, "legacy")
    ELSE IF nx.ok THEN Found(nx.v, "nuxt")
    ELSE Fail("cannot_find")

\* fetch_league_matches of fetch_understat.py, after _get
FetchLeagueMatchesA(page) ==
    PickMatchesA(LegacyDataA(LegacyBlock("fetch_understat", page, "matchesData"),
                             LegacyBlock("fetch_understat", page, "matches")),
                 LegacyMatchesA(LegacyDataA(LegacyBlock("fetch_understat", page, "matchesData"),
                                            LegacyBlock("fetch_understat", page, "matches"))),
                 NuxtMatches("fetch_understat", page))

\* the try block of one pass of `for key in ("matchesData", "matches")` of
\* understat_shots.py: [ok, v], ok when it returns norm
NonEmpty(r) == IF r.ok /\ r.v # <<>> THEN r ELSE [ok |-> FALSE, v |-> <<>>]

LegacyMatchesB(page, key) ==
    LET b == LegacyBlock("understat_shots", page, key)
    IN  IF b.st = "text" THEN NonEmpty(LoadMatches(b.text))
        ELSE [ok |-> FALSE, v |-> <<>>]

\* what fetch_league_matches of understat_shots.py returns or raises
PickMatchesB(l1, l2, nx) ==
    IF l1.ok THEN Found(l1.v, "legacy")
    ELSE IF l2.ok THEN Found(l2.v, "legacy")
    ELSE IF nx.ok THEN Found(nx.v, "nuxt")
    ELSE Fail("cannot_find")

\* fetch_league_matches of understat_shots.py, after _get
FetchLeagueMatchesB(page) ==
    PickMatchesB(LegacyMatchesB(page, "matchesData"),
                 LegacyMatchesB(page, "matches"),
                 NonEmpty(NuxtMatches("understat_shots", page)))

\* fetch_league_matches(season) of script `var` on the league page
FetchLeagueMatches(var, page) ==
    IF ~GetOk(var, page) THEN Fail("get_failed")
    ELSE IF var = "fetch_understat" THEN FetchLeagueMatchesA(page)
    ELSE FetchLeagueMatchesB(page)

\* the try block `json.loads(shots_str)` then normalize: [ok, v]
LoadShots(var, match_id, text) ==
    IF JsonLoads(text).ok THEN NormalizeShots(var, match_id, JsonLoads(text).v)
    ELSE [ok |-> FALSE, v |-> <<>>]

\* `if shots: return _normalize_shots(match_id, shots)` on what the search
\* found
FoundShots(var, match_id, found) ==
    IF ~Truthy(found) THEN [ok |-> FALSE, v |-> <<>>]
    ELSE NormalizeShots(var, match_id, found)

\* the Nuxt fallback of fetch_match_shots: [ok, v]
NuxtShots(var, match_id, page) ==
    IF ~Truthy(ExtractNuxtJson(page)) THEN [ok |-> FALSE, v |-> <<>>]
    ELSE FoundShots(var, match_id,
                    DeepFindFirst(var, ExtractNuxtJson(page),
                                  [kind |-> "looks_like_shots"]))

\* the legacy step of fetch_match_shots: [ok, v]
LegacyShots(var, match_id, b) ==
    IF b.st = "text" THEN LoadShots(var, match_id, b.text)
    ELSE [ok |-> FALSE, v |-> <<>>]

\* what fetch_match_shots returns or raises, given the legacy block, its
\* rows and the rows of the Nuxt fallback; understat_shots.py returns rows
\* only `if rows`
PickShots(var, b, legacy, nx) ==
    IF b.st = "raise" THEN Fail("decode_error")
    ELSE IF var = "fetch_understat"
    THEN IF legacy.ok THEN Found(legacy.v, "legacy")
         ELSE IF nx.ok THEN Found(nx.v, "nuxt")
         ELSE Fail("cannot_find")
    ELSE IF NonEmpty(legacy).ok THEN Found(legacy.v, "legacy")
         ELSE IF NonEmpty(nx).ok THEN Found(nx.v, "nuxt")
         ELSE Fail("cannot_find")

\* fetch_match_shots(match_id) of script `var` on the match page
FetchMatchShots(var, match_id, page) ==
    IF ~GetOk(var, page) THEN Fail("get_failed")
    ELSE PickShots(var, LegacyBlock(var, page, "shotsData"),
                   LegacyShots(var, match_id, LegacyBlock(var, page, "shotsData")),
                   NuxtShots(var, match_id, page))

(***************************************************************************)
(* The pages the site may serve                                            *)
(***************************************************************************)
MaxRound == 3
MaxLimit == 2

KV(k, v) == [k |-> k, v |-> v]

\* a page served at the first attempt, one served after n failed attempts,
\* and one never served
PageAfter(n, decls) == [get |-> TRUE, fails |-> n, decls |-> decls]
Page(decls) == PageAfter(0, decls)
NoPage == [get |-> FALSE, fails |-> 0, decls |-> <<>>]
Decl(form, key, text) == [form |-> form, key |-> key, text |-> text]

\* raw shot records as a match page holds them
ShotGoal ==
    PyDict(<< KV("x", PyStr(<<"0", ".", "9">>)), KV("y", PyStr(<<"0", ".", "5">>)),
              KV("minute", PyStr(<<"1", "2">>)), KV("xG", PyStr(<<"0", ".", "3", "5">>)),
              KV("result", PyStr(<<"G", "o", "a", "l">>)), KV("player", PyStr(<<"A">>)),
              KV("h_a", PyStr(<<"h">>)), KV("isPenalty", PyStr(<<"1">>)),
              KV("player_id", PyStr(<<"7", "7">>)) >>)

ShotMissed ==
    PyDict(<< KV("x", PyFloat(Flt(<<"0", ".", "7">>))),
              KV("y", PyFloat(Flt(<<"0", ".", "2", "5">>))),
              KV("minute", PyInt(88)),
              KV("xG", PyFloat(Flt(<<"0", ".", "0", "5">>))),
              KV("result", PyStr(<<"M", "i", "s", "s", "e", "d">>)),
              KV("h_a", PyStr(<<"a">>)) >>)

\* a page that cannot be got, one with no block, the legacy block, a legacy
\* block with no shot, a hydration blob behind an unparseable block, the
\* legacy block served at the second attempt, and a page served only at the
\* seventh
MatchPages ==
    LET
        ShotSaved ==
            PyDict(<< KV("x", PyStr(<<"0", ".", "8">>)), KV("y", PyStr(<<"0", ".", "4">>)),
                      KV("minute", PyStr(<<"4", "0">>)), KV("xG", PyStr(<<"0", ".", "1">>)),
                      KV("result", PyStr(<<"S", "a", "v", "e", "d">>)) >>)
        ShotPair(h, a) == PyDict(<< KV("h", h), KV("a", a) >>)
    IN
    { NoPage,
      Page(<<>>),
      Page(<< Decl("parse", "shotsData",
                   ShotPair(PyList(<<ShotGoal, ShotSaved>>), PyList(<<ShotMissed>>))) >>),
      Page(<< Decl("literal", "shotsData", ShotPair(PyList(<<>>), PyList(<<>>))) >>),
      Page(<< Decl("literal", "shotsData", Invalid),
              Decl("nuxt", "__NUXT__",
                   PyDict(<< KV("data", PyList(<< PyDict(<< KV("shots",
                       ShotPair(PyList(<<ShotSaved>>), PyList(<<>>))) >>) >>)) >>)) >>),
      PageAfter(1, << Decl("parse", "shotsData",
                          ShotPair(PyList(<<ShotMissed>>), PyList(<<>>))) >>),
      PageAfter(MaxRetriesA, << Decl("literal", "shotsData",
                                    ShotPair(PyList(<<>>), PyList(<<ShotGoal>>))) >>) }

\* the league pages: raw match records as a league page holds them.
\* MainList: a match with no round and no date, a match of round "0", and
\* matches of rounds 1 and 3; the later round carries the earlier date, which
\* the match of round "0" shares.  MixedDates: a number and a string.
\* ListDates: dates that are lists, the later one first.
LeaguePages ==
    LET
        RawMatch(id, round, date) ==
            PyDict(<< KV("id", PyStr(id)), KV("round", round), KV("datetime", PyStr(date)) >>)

        MainList ==
            PyList(<< PyDict(<< KV("id", PyInt(11)) >>),
                      RawMatch(<<"1", "2">>, PyStr(<<"0">>), <<"0", "8", "-", "1", "7">>),
                      RawMatch(<<"2", "1">>, PyStr(<<"1">>), <<"0", "8", "-", "2", "4">>),
                      RawMatch(<<"2", "3">>, PyInt(3), <<"0", "8", "-", "1", "7">>) >>)

        ShortList ==
            PyList(<< PyDict(<< KV("id", PyStr(<<"3", "1">>)), KV("round_number", PyInt(2)),
                                KV("date", PyStr(<<"1", "2">>)) >>),
                      PyDict(<< KV("id", PyStr(<<"3", "2">>)), KV("week", PyStr(<<"1">>)),
                                KV("date", PyStr(<<"1", "1">>)) >>) >>)

        MixedDates ==
            PyList(<< PyDict(<< KV("id", PyInt(41)), KV("round", PyInt(1)),
                                KV("datetime", PyInt(20240810)) >>),
                      PyDict(<< KV("id", PyInt(42)), KV("round", PyInt(2)),
                                KV("datetime", PyStr(<<"1", "1">>)) >>) >>)

        ListDates ==
            PyList(<< PyDict(<< KV("id", PyInt(51)), KV("round", PyInt(1)),
                                KV("datetime", PyList(<<PyInt(2)>>)) >>),
                      PyDict(<< KV("id", PyInt(52)), KV("round", PyInt(1)),
                                KV("datetime", PyList(<<PyInt(1)>>)) >>) >>)
    IN
    { NoPage,
      Page(<<>>),
      Page(<< Decl("parse", "matchesData", MainList) >>),
      Page(<< Decl("literal", "other", PyList(<<>>)),
              Decl("literal", "matches", ShortList) >>),
      Page(<< Decl("nuxt", "__NUXT__",
                   PyDict(<< KV("state", PyDict(<< KV("league", ShortList) >>)) >>)) >>),
      Page(<< Decl("parse", "matchesData", BadEscape) >>),
      Page(<< Decl("literal", "matchesData", Invalid),
              Decl("nuxt", "__NUXT__", PyDict(<< KV("league", ShortList) >>)) >>),
      Page(<< Decl("parse", "matchesData", PyList(<<>>)) >>),
      Page(<< Decl("parse", "matchesData", PyInt(5)),
              Decl("nuxt", "__NUXT__", PyDict(<< KV("league", PyList(<<>>)) >>)) >>),
      Page(<< Decl("parse", "matchesData", MixedDates) >>),
      PageAfter(1, << Decl("literal", "matchesData", ListDates) >>) }

\* the values of --from-round and --to-round, and of --limit-matches
RoundArgs == {None} \cup {PyInt(r) : r \in 0..MaxRound}
LimitArgs == {None} \cup {PyInt(n) : n \in -1..MaxLimit}

Variants == {"fetch_understat", "understat_shots"}

\* the match ids the league pages give
MatchIds ==
    UNION { {FetchLeagueMatches(var, page).v[i].id :
                i \in 1..Len(FetchLeagueMatches(var, page).v)} :
            var \in Variants, page \in LeaguePages }

\* fetch_match_shots of each script, for each match id and each match page
\* of the model
MatchShots ==
    [var \in Variants, match_id \in MatchIds, page \in MatchPages |->
        FetchMatchShots(var, match_id, page)]

(***************************************************************************)
(* The orchestrator main                                                   *)
(***************************************************************************)
RoundSentinel == 1000000000

\* (m["round"] or 0) >= args.from_round
KeepFrom(m, from_round) == (IF Truthy(m.round) THEN m.round.i ELSE 0) >= from_round

\* mutant of KeepTo: the fallback of the lower bound used for the upper one
KeepTo_ZeroFallback(m, to_round) ==
    (IF Truthy(m.round) THEN m.round.i ELSE 0) <= to_round

\* (m["round"] or 10**9) <= args.to_round
KeepTo(m, to_round) == (IF Truthy(m.round) THEN m.round.i ELSE RoundSentinel) <= to_round

\* the two list comprehensions of the round filter
RoundFiltered(ms, a) ==
    LET TestFrom(m) == KeepFrom(m, a.from_round.i)
        TestTo(m) == KeepTo(m, a.to_round.i)
        s1 == IF IsNone(a.from_round) THEN ms ELSE SelectSeq(ms, TestFrom)
    IN  IF IsNone(a.to_round) THEN s1 ELSE SelectSeq(s1, TestTo)

\* the sort key: m.get("date") or ""
SortKey(m) == Or(m.date, EmptyStr)

IsNum(x) == x.t \in {"int", "float", "bool"}

\* the number x as it is compared with another: its value as a float,
\* exact for the ints of the model
NumVal(x) ==
    CASE x.t = "float" -> x.f
      [] x.t = "int" -> DblOfInt(x.i)
      [] x.t = "bool" -> DblOfInt(IF x.b THEN 1 ELSE 0)

\* a is b or a == b, the test list and dict comparison put to two of their
\* elements (PyObject_RichCompareBool), on values json.loads gives.  Every
\* nan that json.loads reads is the one object json.decoder.NaN, so a nan
\* element is taken as equal to a nan element although nan == nan is false.
RECURSIVE PyEq(_, _)
PyEq(a, b) ==
    IF IsNum(a) /\ IsNum(b)
    THEN (NumVal(a).k = "nan" /\ NumVal(b).k = "nan") \/ DblEq(NumVal(a), NumVal(b))
    ELSE IF a.t # b.t THEN FALSE
    ELSE CASE a.t = "str" -> a.s = b.s
           [] a.t = "arr" ->
                /\ Len(a.a) = Len(b.a)
                /\ \A i \in 1..Len(a.a) : PyEq(a.a[i], b.a[i])
           [] a.t = "obj" ->
                /\ Len(a.o) = Len(b.o)
                /\ \A i \in 1..Len(a.o) :
                      HasKey(b, a.o[i].k) /\ PyEq(a.o[i].v, Get(b, a.o[i].k))
           [] OTHER -> TRUE

\* a < b: Ok(TRUE), Ok(FALSE), or Raised for the TypeError "'<' not
\* supported".  Numbers compare by value (nan < nan is false), strings by
\* code point, lists by their first elements that PyEq tells apart, or by
\* length when there are none; nothing else compares.
RECURSIVE PyLess(_, _)
PyLess(a, b) ==
    IF IsNum(a) /\ IsNum(b)
    THEN Ok(DblLess(NumVal(a), NumVal(b)))
    ELSE IF a.t = "str" /\ b.t = "str" THEN Ok(StrLess(a.s, b.s))
    ELSE IF a.t = "arr" /\ b.t = "arr"
    THEN LET diff == {i \in 1..Len(a.a) : i <= Len(b.a) /\ ~PyEq(a.a[i], b.a[i])}
         IN  IF diff = {} THEN Ok(Len(a.a) < Len(b.a))
             ELSE PyLess(a.a[CHOOSE i \in diff : \A j \in diff : i <= j],
                         b.a[CHOOSE i \in diff : \A j \in diff : i <= j])
    ELSE Raised

\* the sort key a is less than the sort key b
KeyLess(a, b) == PyLess(a, b).ok /\ PyLess(a, b).v

\* the loop of count_run from place i: the length of the run that starts
\* the list, -1 when a comparison raises.  A descending run goes on while
\* ms[i] < ms[i - 1], an ascending one while not.
RECURSIVE RunLen(_, _, _)
RunLen(ms, i, desc) ==
    IF i > Len(ms) THEN Len(ms)
    ELSE LET c == PyLess(SortKey(ms[i]), SortKey(ms[i - 1]))
         IN  IF ~c.ok THEN -1
             ELSE IF c.v = desc THEN RunLen(ms, i + 1, desc)
             ELSE i - 1

\* the do-while of binarysort: the number of elements of the sorted s that
\* stay before pivot, -1 when a comparison raises
RECURSIVE BinaryPlace(_, _, _, _)
BinaryPlace(s, pivot, l, r) ==
    LET p == l + ((r - l) \div 2)
        c == PyLess(SortKey(pivot), SortKey(s[p + 1]))
        l2 == IF c.v THEN l ELSE p + 1
        r2 == IF c.v THEN p ELSE r
    IN  IF ~c.ok THEN -1
        ELSE IF l2 < r2 THEN BinaryPlace(s, pivot, l2, r2)
        ELSE l2

\* binarysort: the elements of rest put one by one into the sorted s; [ok, v],
\* v the list as a raising comparison leaves it when ok is FALSE
RECURSIVE BinarySort(_, _)
BinarySort(s, rest) ==
    IF rest = <<>> THEN [ok |-> TRUE, v |-> s]
    ELSE LET k == BinaryPlace(s, Head(rest), 0, Len(s))
         IN  IF k < 0 THEN [ok |-> FALSE, v |-> s \o rest]
             ELSE BinarySort(SubSeq(s, 1, k) \o <<Head(rest)>> \o SubSeq(s, k + 1, Len(s)),
                             Tail(rest))

\* list.sort(key=...) of a list shorter than 64: count_run finds the run
\* that starts the list (first.v tells whether it is strictly descending,
\* and it is then reversed), binarysort inserts the rest; [ok, v], ok = FALSE
\* when a comparison raises TypeError
ListSort(ms) ==
    LET first == PyLess(SortKey(ms[2]), SortKey(ms[1]))
        n == IF first.ok THEN RunLen(ms, 3, first.v) ELSE -1
        run == SubSeq(ms, 1, n)
        Reversed(q) == [i \in 1..Len(q) |-> q[Len(q) + 1 - i]]
    IN  IF Len(ms) < 2 THEN [ok |-> TRUE, v |-> ms]
        ELSE IF n < 0 THEN [ok |-> FALSE, v |-> ms]
        ELSE BinarySort(IF first.v THEN Reversed(run) ELSE run,
                        SubSeq(ms, n + 1, Len(ms)))

\* list.sort ends without TypeError
Sortable(ms) == ListSort(ms).ok

\* the list left as the league page gave it
SortByDate_Unsorted(ms) == ms

\* matches.sort(key=lambda m: m.get("date") or ""): stable, ascending; the
\* list as the sort leaves it
SortByDate(ms) == ListSort(ms).v

\* matches[-n:]: the start -n counts from the end when negative (n > 0) and
\* from the front otherwise, so -0 is the front and the whole list is kept
TailSlice(ms, n) ==
    LET start == IF n > 0
                 THEN (IF Len(ms) - n > 0 THEN Len(ms) - n ELSE 0)
                 ELSE (IF -n < Len(ms) THEN -n ELSE Len(ms))
    IN  SubSeq(ms, start + 1, Len(ms))

\* mutant of Limited: matches[:n], the head of the list in place of its tail
Limited_HeadSlice(ms, limit) ==
    LET stop == IF limit.i >= 0
                THEN (IF limit.i < Len(ms) THEN limit.i ELSE Len(ms))
                ELSE (IF Len(ms) + limit.i > 0 THEN Len(ms) + limit.i ELSE 0)
    IN  IF Truthy(limit) THEN SubSeq(ms, 1, stop) ELSE ms

\* if args.limit_matches: matches = matches[-int(args.limit_matches):]
Limited(ms, limit) == IF Truthy(limit) THEN TailSlice(ms, limit.i) ELSE ms

Ev(e, id) == [e |-> e, id |-> id]

\* the events of _get(url): a request per attempt, and after every attempt
\* that fails, the last one too, the backoff time.sleep; e names the request
GetEvents(var, page, e, id) ==
    LET failed == IF GetOk(var, page) THEN page.fails ELSE MaxRetries(var)
        pair == <<Ev(e, id), Ev("sleep_in_get", id)>>
    IN  [i \in 1..(2 * failed) |-> pair[2 - (i % 2)]]
            \o (IF GetOk(var, page) THEN <<Ev(e, id)>> ELSE <<>>)

\* what main does with the result r of fetch_league_matches: an exception
\* is not caught and ends the run
LeagueStep(r) ==
    IF r.kind = "ok"
    THEN /\ matches' = r.v
         /\ pc' = "filter"
         /\ result' = result
    ELSE /\ matches' = matches
         /\ pc' = "done"
         /\ result' = IF r.kind = "cannot_find" THEN "cannot_find_matches" ELSE r.kind

\* matches = fetch_league_matches(args.season)
FetchLeague ==
    /\ pc = "start"
    /\ events' = events \o GetEvents(variant, html, "get_league", 0)
    /\ LeagueStep(FetchLeagueMatches(variant, html))
    /\ UNCHANGED <<variant, args, html, idx, served, all_rows, warnings, persisted, fnVars>>

\* the round filters
RoundFilter ==
    /\ pc = "filter"
    /\ matches' = RoundFiltered(matches, args)
    /\ pc' = "sort"
    /\ UNCHANGED <<variant, args, html, idx, served, all_rows, warnings, events,
                   result, persisted, fnVars>>

\* the sort by date and the most-recent-N limit
SortLimit ==
    /\ pc = "sort"
    /\ IF Sortable(matches)
       THEN /\ matches' = Limited(SortByDate(matches), args.limit_matches)
            /\ pc' = "check"
            /\ result' = result
       ELSE /\ matches' = SortByDate(matches)
            /\ pc' = "done"
            /\ result' = "sort_type_error"
    /\ UNCHANGED <<variant, args, html, idx, served, all_rows, warnings, events,
                   persisted, fnVars>>

\* if not matches: raise SystemExit("No matches found after filters. ...")
CheckMatches ==
    /\ pc = "check"
    /\ IF matches = <<>>
       THEN pc' = "done" /\ result' = "no_matches"
       ELSE pc' = "loop" /\ result' = result
    /\ UNCHANGED <<variant, args, html, matches, idx, served, all_rows, warnings,
                   events, persisted, fnVars>>

\* mutant of MatchStep: all_rows = rows in place of all_rows.extend(rows)
MatchStep_Assign(mid, r, gets) ==
    IF r.kind = "ok"
    THEN /\ all_rows' = r.v
         /\ warnings' = warnings
         /\ events' = events \o gets \o <<Ev("sleep", mid)>>
    ELSE /\ all_rows' = all_rows
         /\ warnings' = Append(warnings, mid)
         /\ events' = events \o gets \o <<Ev("warn", mid)>>

\* the try/except of the loop body, r the result of fetch_match_shots(mid),
\* gets the events of its _get
MatchStep(mid, r, gets) ==
    IF r.kind = "ok"
    THEN /\ all_rows' = all_rows \o r.v
         /\ warnings' = warnings
         /\ events' = events \o gets \o <<Ev("sleep", mid)>>
    ELSE /\ all_rows' = all_rows
         /\ warnings' = Append(warnings, mid)
         /\ events' = events \o gets \o <<Ev("warn", mid)>>

\* one pass of the loop over the selected matches, the match page being
\* whatever the site serves
FetchMatch ==
    /\ pc = "loop"
    /\ idx <= Len(matches)
    /\ \E page \in MatchPages :
          /\ served' = Append(served, page)
          /\ MatchStep(matches[idx].id, MatchShots[variant, matches[idx].id, page],
                       GetEvents(variant, page, "get_match", matches[idx].id))
    /\ idx' = idx + 1
    /\ UNCHANGED <<variant, pc, args, html, matches, result, persisted, fnVars>>

\* mutant of BuildTable: the df.empty check left out
BuildTable_NoEmptyCheck ==
    /\ pc = "loop"
    /\ idx > Len(matches)
    /\ pc' = "done"
    /\ result' = "saved"
    /\ persisted' = all_rows
    /\ events' = Append(events, Ev("to_csv", Len(all_rows)))
    /\ UNCHANGED <<variant, args, html, matches, idx, served, all_rows, warnings, fnVars>>

\* after the loop: df.empty raises SystemExit("No shots parsed. ..."), else
\* the table is written
BuildTable ==
    /\ pc = "loop"
    /\ idx > Len(matches)
    /\ pc' = "done"
    /\ IF all_rows = <<>>
       THEN /\ result' = "no_shots"
            /\ persisted' = persisted
            /\ events' = events
       ELSE /\ result' = "saved"
            /\ persisted' = all_rows
            /\ events' = Append(events, Ev("to_csv", Len(all_rows)))
    /\ UNCHANGED <<variant, args, html, matches, idx, served, all_rows, warnings, fnVars>>

Init ==
    /\ variant \in Variants
    /\ html \in LeaguePages
    /\ args \in [from_round : RoundArgs, to_round : RoundArgs \cup {PyInt(RoundSentinel)},
                 limit_matches : LimitArgs]
    /\ pc = "start"
    /\ matches = <<>>
    /\ idx = 1
    /\ served = <<>>
    /\ all_rows = <<>>
    /\ warnings = <<>>
    /\ events = <<>>
    /\ result = "none"
    /\ persisted = <<>>
    /\ op = "main"
    /\ inp = None
    /\ out = None

Next ==
    \/ FetchLeague
    \/ RoundFilter
    \/ SortLimit
    \/ CheckMatches
    \/ FetchMatch
    \/ BuildTable

Spec == Init /\ [][Next]_vars

(***************************************************************************)
(* Claims about the orchestrator                                           *)
(***************************************************************************)
\* the normalized match list main received
Fetched == FetchLeagueMatches(variant, html).v

Elems(s) == {s[i] : i \in 1..Len(s)}

FromSet == ~IsNone(args.from_round)
ToSet == ~IsNone(args.to_round)

\* the round filter has run and the sort has not
Filtered == pc = "sort"

\* C1 as stated: a match of unknown round is dropped whenever fromRound is
\* set and kept whenever only toRound is set; a known round r is kept
\* exactly when fromRound <= r <= toRound
C1_KeepStated(m) ==
    IF IsNone(m.round)
    THEN ~FromSet
    ELSE /\ FromSet => args.from_round.i <= m.round.i
         /\ ToSet => m.round.i <= args.to_round.i

\* C1 (original statement): after the round filter the selected matches are
\* the fetched matches the stated rule keeps, in order.
C1_Original == Filtered => matches = SelectSeq(Fetched, C1_KeepStated)

\* C1 as amended: an unknown round, and round 0, count as 0 against the
\* lower bound and as 10^9 against the upper bound
C1_KeepAmended(m) ==
    IF IsNone(m.round) \/ m.round.i = 0
    THEN /\ FromSet => args.from_round.i <= 0
         /\ ToSet => args.to_round.i >= 1000000000
    ELSE /\ FromSet => args.from_round.i <= m.round.i
         /\ ToSet => m.round.i <= args.to_round.i

\* C1 (amended): after the round filter the selected matches are the
\* fetched matches kept by: unknown or zero round kept iff fromRound <= 0
\* (if set) and toRound >= 10^9 (if set); known non-zero round r kept iff
\* fromRound <= r <= toRound, each bound applied only if set.
C1_RoundFilter == Filtered => matches = SelectSeq(Fetched, C1_KeepAmended)

\* C1 witness: only toRound is set, below the sentinel, and a fetched match
\* of unknown round has been dropped while one of known round was kept
C1_Witness ==
    /\ Filtered
    /\ ~FromSet
    /\ ToSet
    /\ \E m \in Elems(Fetched) : IsNone(m.round) /\ m \notin Elems(matches)
    /\ \E m \in Elems(matches) : ~IsNone(m.round)

\* what fetch_match_shots gave for the i-th request
ServedResult(i) == MatchShots[variant, matches[i].id, served[i]]

\* the rows a request gave the table, and the warning it caused
RowsOf(r) == IF r.kind = "ok" THEN r.v ELSE <<>>
WarnOf(r, mid) == IF r.kind = "ok" THEN <<>> ELSE <<mid>>

\* the rows of the successful ones among the first n requests, in order
RECURSIVE RowsUpTo(_)
RowsUpTo(n) ==
    IF n = 0 THEN <<>> ELSE RowsUpTo(n - 1) \o RowsOf(ServedResult(n))

\* the ids of the failed ones among the first n requests, in order
RECURSIVE FailedUpTo(_)
FailedUpTo(n) ==
    IF n = 0 THEN <<>>
    ELSE FailedUpTo(n - 1) \o WarnOf(ServedResult(n), matches[n].id)

InLoop == pc = "loop" \/ (pc = "done" /\ result \in {"saved", "no_shots"})

\* C2: per-match failure is non-fatal.  While and after the loop runs, the
\* matches requested are the first idx - 1 selected ones, the aggregate
\* table is the concatenation of the rows of the successful requests in
\* order, the warnings are exactly the failed requests in order, and the
\* loop ends only when every selected match was requested.
C2_PerMatchNonFatal ==
    InLoop =>
        /\ Len(served) = idx - 1
        /\ all_rows = RowsUpTo(Len(served))
        /\ warnings = FailedUpTo(Len(served))
        /\ pc = "done" => Len(served) = Len(matches)

\* C2 witness: the run ended with a table after a failed request was
\* followed by a successful one
C2_Witness ==
    /\ pc = "done"
    /\ result = "saved"
    /\ \E i \in 1..Len(served) : \E j \in 1..Len(served) :
          /\ i < j
          /\ ServedResult(i).kind # "ok"
          /\ ServedResult(j).kind = "ok"
          /\ ServedResult(j).v # <<>>

Errors ==
    {"get_failed", "decode_error", "cannot_find_matches", "sort_type_error",
     "no_matches", "no_shots"}

\* C3: a run ends with a non-empty table written, or with an error and
\* nothing written; nothing is written before the end; "no_matches" ends the
\* run before any match page is requested and exactly when no match is
\* selected; "no_shots" ends it after every selected match was requested
\* and no row was parsed.
C3_RunEnds ==
    /\ pc # "done" => result = "none" /\ persisted = <<>>
    /\ pc = "done" =>
          /\ result \in Errors \cup {"saved"}
          /\ result = "saved" <=> persisted # <<>>
          /\ result = "saved" => persisted = all_rows
          /\ result = "no_matches" <=>
                (FetchLeagueMatches(variant, html).kind = "ok"
                    /\ result # "sort_type_error" /\ matches = <<>>)
          /\ result = "no_matches" => served = <<>>
          /\ result = "no_shots" <=>
                (matches # <<>> /\ Len(served) = Len(matches) /\ all_rows = <<>>)

\* C3 witness: a run that requested match pages and ended with "no_shots"
C3_Witness == pc = "done" /\ result = "no_shots" /\ Len(served) >= 2

\* the legacy text the page gives for key: the first JSON.parse block, else
\* the first literal block
LegacyText(page, key) ==
    IF FirstDecl(page, "parse", key) # 0
    THEN page.decls[FirstDecl(page, "parse", key)].text
    ELSE IF FirstDecl(page, "literal", key) # 0
    THEN page.decls[FirstDecl(page, "literal", key)].text
    ELSE Invalid

\* the page was got and neither legacy key nor the hydration blob yields a
\* match list
NoMatchList(page) ==
    /\ GetOk(variant, page)
    /\ \A key \in {"matchesData", "matches"} : ~LoadMatches(LegacyText(page, key)).ok
    /\ DeepFindAll(ExtractNuxtJson(page), [kind |-> "looks_like_matches"]) = <<>>

\* C6 (as stated): when the league page yields no match list the run ends
\* with the "cannot find matches" error, no match page requested, nothing
\* written; a match page that yields no shots never ends the run that way.
C6_Claim ==
    /\ (pc = "done" /\ NoMatchList(html)) =>
          result = "cannot_find_matches" /\ served = <<>> /\ persisted = <<>>
    /\ served # <<>> => result \in {"none", "saved", "no_shots"}

(***************************************************************************)
(* Single calls of the normalizers and of the search                       *)
(* One call of one function: Init draws the input, the action applies the  *)
(* function, out is its result.                                            *)
(***************************************************************************)
MaxLabelLen == 3
MaxShots == 2
MaxRecords == 2
MaxWidth == 2

SeqsUpTo(S, n) == UNION {[1..k -> S] : k \in 0..n}

\* a key a dict does not hold
Absent == [t |-> "absent"]

\* the pair of key k, unless the value is Absent
F(k, v) == IF v.t = "absent" THEN <<>> ELSE << KV(k, v) >>

\* the orchestrator at rest, a call pending
CallInit(name) ==
    /\ op = name
    /\ out = None
    /\ pc = "call"
    /\ args = [from_round |-> None, to_round |-> None, limit_matches |-> None]
    /\ html = NoPage
    /\ matches = <<>>
    /\ idx = 1
    /\ served = <<>>
    /\ all_rows = <<>>
    /\ warnings = <<>>
    /\ events = <<>>
    /\ result = "none"
    /\ persisted = <<>>

Called == pc = "return"

\* the raw labels: absent, every string of LabelChars up to MaxLabelLen, the
\* words, and two labels that are no strings
\* ---- _normalize_outcome ----
Labels ==
    LET
        LabelChars == {"G", "o", " ", "_"}
        LabelWords ==
            { S_goal, S_saved, S_blocked, S_missed, S_shot_on_post, S_off_target, S_unknown,
              <<"G", "o", "a", "l">>, <<"G", "O", "A", "L">>, <<"S", "a", "v", "e", "d">>,
              <<"B", "l", "o", "c", "k", "e", "d">>, <<"M", "i", "s", "s", "e", "d">>,
              <<"S", "h", "o", "t", " ", "O", "n", " ", "P", "o", "s", "t">>,
              <<"s", "h", "o", "t", " ", "o", "n", "_", "p", "o", "s", "t">>,
              <<"S", "h", "o", "t", "O", "n", "P", "o", "s", "t">>,
              <<"M", "i", "s", "s", "e", "d", "S", "h", "o", "t", "s">>,
              <<"S", "a", "v", "e", "d", "S", "h", "o", "t">>,
              <<"O", "w", "n", " ", "G", "o", "a", "l">>,
              <<"O", "w", "n", "G", "o", "a", "l">>,
              <<"g", "o", "a", "l", " ">> }
    IN
        {None, PyInt(0), PyInt(5)}
        \cup {PyStr(s) : s \in SeqsUpTo(LabelChars, MaxLabelLen) \cup LabelWords}

InitOutcome ==
    /\ CallInit("_normalize_outcome")
    /\ variant \in Variants
    /\ inp \in Labels

CallOutcome ==
    /\ pc = "call"
    /\ op = "_normalize_outcome"
    /\ out' = NormalizeOutcome(inp)
    /\ pc' = "return"
    /\ UNCHANGED <<mainVars, op, inp>>

SpecOutcome == InitOutcome /\ [][CallOutcome]_vars

ShotRec(x, y, minute, xg, label) ==
    PyDict(F("x", x) \o F("y", y) \o F("minute", minute) \o F("xG", xg)
           \o F("result", label))

\* ---- _normalize_shots ----
ShotContainers ==
    LET
        GoodX == PyStr(<<"0", ".", "8">>)
        GoodY == PyStr(<<"0", ".", "4">>)
        GoodMinute == PyStr(<<"4", "0", ".", "7">>)
        GoodXg == PyStr(<<"0", ".", "1">>)
        LabelSaved == PyStr(<<"S", "a", "v", "e", "d">>)
        \* a value no float() accepts, a null, and no value at all
        Deviations == {PyStr(<<"n", "o">>), None, Absent}
        \* raw shot records: a complete one, the ones with one required field
        \* deviating, the ones with another label, and one that is no object
        RawShots ==
            {ShotRec(GoodX, GoodY, GoodMinute, GoodXg, LabelSaved), PyInt(3)}
            \cup {ShotRec(d, GoodY, GoodMinute, GoodXg, LabelSaved) : d \in Deviations}
            \cup {ShotRec(GoodX, d, GoodMinute, GoodXg, LabelSaved) : d \in Deviations}
            \cup {ShotRec(GoodX, GoodY, d, GoodXg, LabelSaved) : d \in Deviations}
            \cup {ShotRec(GoodX, GoodY, GoodMinute, d, LabelSaved) : d \in Deviations}
            \cup {ShotRec(GoodX, GoodY, GoodMinute, GoodXg, l) :
                     l \in {Absent, PyInt(5), PyStr(<<"O", "w", "n", " ", "G", "o", "a", "l">>),
                            PyStr(<<"S", "h", "o", "t", " ", "O", "n", " ", "P", "o", "s", "t">>)}}
        Good == ShotRec(GoodX, GoodY, GoodMinute, GoodXg, LabelSaved)
        \* values float() takes that are no plain decimal: an exponent, an
        \* underscore, an infinity, a nan, and seventeen digits
        Forms ==
            { PyStr(<<"5", "e", "-", "1">>), PyStr(<<"1", "_", "0">>),
              PyStr(<<"-", "I", "n", "f">>), PyStr(S_nan),
              PyStr(<<"0", ".", "0", "4", "5", "0", "7", "1", "5", "0", "8", "7",
                      "3", "5", "4", "1", "8", "3", "2">>) }
        \* values of isPenalty and player_id: ones str.isdigit() and int()
        \* take, one only str.isdigit() takes, one neither takes
        Flags == {PyStr(<<"1">>), PyInt(0), PyStr(<<"²">>), PyStr(<<"-", "1">>)}
        FormShots ==
            {ShotRec(d, GoodY, GoodMinute, GoodXg, LabelSaved) : d \in Forms}
            \cup {ShotRec(GoodX, d, GoodMinute, GoodXg, LabelSaved) : d \in Forms}
            \cup {ShotRec(GoodX, GoodY, d, GoodXg, LabelSaved) : d \in Forms}
            \cup {ShotRec(GoodX, GoodY, GoodMinute, d, LabelSaved) : d \in Forms}
            \cup {PyDict(Good.o \o << KV(f, d) >>) :
                     f \in {"isPenalty", "player_id"}, d \in Flags}
        \* what side h may hold: a list of raw shots, or nothing, null, a number, a
        \* dict
        SidesH ==
            {PyList(s) : s \in SeqsUpTo(RawShots, MaxShots)}
            \cup {PyList(<<r>>) : r \in FormShots}
            \cup {PyList(<<r, Good>>) : r \in FormShots}
            \cup {Absent, None, PyInt(5), PyDict(<< KV("k", PyInt(1)) >>)}
        SidesA ==
            { Absent, None, PyList(<<>>), PyList(<<ShotMissed>>),
              PyList(<<ShotGoal, ShotRec(GoodX, GoodY, None, GoodXg, LabelSaved)>>) }
    IN
        {PyDict(F("h", h) \o F("a", a)) : h \in SidesH, a \in SidesA}

InitShots ==
    /\ CallInit("_normalize_shots")
    /\ variant \in Variants
    /\ inp \in [match_id : {7}, shots : ShotContainers]

CallShots ==
    /\ pc = "call"
    /\ op = "_normalize_shots"
    /\ out' = NormalizeShots(variant, inp.match_id, inp.shots)
    /\ pc' = "return"
    /\ UNCHANGED <<mainVars, op, inp>>

SpecShots == InitShots /\ [][CallShots]_vars

\* ---- _normalize_matches ----
RawMatchRec(id, round, round_number, week, datetime, date) ==
    PyDict(F("id", id) \o F("round", round) \o F("round_number", round_number)
           \o F("week", week) \o F("datetime", datetime) \o F("date", date))

MatchLists ==
    LET
        Str7 == PyStr(<<"7">>)
        RawMatches ==
            { RawMatchRec(id, round, round_number, week, datetime, date) :
                id \in {Absent, Str7, PyStr(<<"x">>), PyFloat(Flt(<<"7", ".", "5">>))},
                round \in {Absent, PyInt(0), EmptyStr, PyStr(<<"2">>), PyStr(<<"x">>)},
                round_number \in {Absent, PyInt(5)},
                week \in {Absent, PyStr(<<"3">>), PyInt(0)},
                datetime \in {Absent, EmptyStr, PyStr(<<"d">>)},
                date \in {Absent, PyStr(<<"e">>)} }
        \* a few records for the lists of more than one
        FewMatches ==
            { RawMatchRec(Str7, PyStr(<<"2">>), Absent, Absent, PyStr(<<"d">>), Absent),
              RawMatchRec(PyStr(<<"8">>), PyInt(0), PyInt(5), Absent, EmptyStr, PyStr(<<"e">>)),
              RawMatchRec(PyStr(<<"x">>), PyStr(<<"1">>), Absent, Absent, Absent, Absent),
              RawMatchRec(PyInt(9), Absent, Absent, Absent, Absent, Absent),
              PyInt(3) }
    IN
        {PyList(<<m>>) : m \in RawMatches}
        \cup {PyList(s) : s \in SeqsUpTo(FewMatches, MaxRecords)}
        \cup {PyInt(5), PyDict(<< KV("id", Str7) >>)}

InitMatches ==
    /\ CallInit("_normalize_matches")
    /\ variant \in Variants
    /\ inp \in MatchLists

CallMatches ==
    /\ pc = "call"
    /\ op = "_normalize_matches"
    /\ out' = NormalizeMatches(inp)
    /\ pc' = "return"
    /\ UNCHANGED <<mainVars, op, inp>>

SpecMatches == InitMatches /\ [][CallMatches]_vars

\* ---- _deep_find_first ----
Docs ==
    LET
        Leaves == {None, PyInt(7)}
        Nodes1 ==
            Leaves
            \cup {PyList(s) : s \in SeqsUpTo(Leaves, MaxWidth)}
            \cup {PyDict(<< KV("p", v) >>) : v \in Leaves}
    IN
        {PyList(s) : s \in SeqsUpTo(Nodes1, MaxWidth)}
        \cup {PyDict(<< KV("p", v), KV("q", w) >>) : v \in Nodes1, w \in Nodes1}

\* predicates true on some shapes and raising on some
TablePreds ==
    [kind : {"table"},
     hit : { {}, {<<"int", 7>>}, {<<"arr", 1>>}, {<<"obj", 1>>},
             {<<"int", 7>>, <<"arr", 2>>} },
     raise : { {}, {<<"arr", 1>>}, {<<"arr", 2>>}, {<<"obj", 1>>}, {<<"obj", 2>>},
               {<<"null", 0>>} }]

InitFind ==
    /\ CallInit("_deep_find_first")
    /\ variant \in Variants
    /\ inp \in [obj : Docs, pred : TablePreds]

CallFind ==
    /\ pc = "call"
    /\ op = "_deep_find_first"
    /\ out' = DeepFindFirst(variant, inp.obj, inp.pred)
    /\ pc' = "return"
    /\ UNCHANGED <<mainVars, op, inp>>

SpecFind == InitFind /\ [][CallFind]_vars

(***************************************************************************)
(* Claims on the single calls                                              *)
(***************************************************************************)
\* the label with its spaces replaced and its letters lower-cased, character
\* by character
Folded(s) == [i \in 1..Len(s) |-> IF s[i] = " " THEN "_" ELSE LowerChar(s[i])]

\* the documented table; <<>> for a key it does not hold
StatedTable(k) ==
    CASE k = S_goal -> S_goal
      [] k = S_saved -> S_saved
      [] k = S_blocked -> S_blocked
      [] k = S_missed -> S_off_target
      [] k = S_shot_on_post -> S_off_target
      [] OTHER -> <<>>

IsLabel(v) == v.t = "str" \/ ~Truthy(v)

LabelText(v) == IF v.t = "str" THEN v.s ELSE <<>>

\* C5 as stated: every raw label gives the table value of its folded form,
\* unknown when it is empty or absent, and the raw string unchanged when it
\* is non-empty and unmapped.
C5_Original ==
    (Called /\ IsLabel(inp)) =>
        /\ out.ok
        /\ out.s = (IF LabelText(inp) = <<>> THEN S_unknown
                    ELSE IF StatedTable(Folded(LabelText(inp))) # <<>>
                    THEN StatedTable(Folded(LabelText(inp)))
                    ELSE LabelText(inp))

\* C5 amended: every raw label gives the table value of its folded form,
\* unknown when it is empty or absent, and the folded form (lower-cased,
\* spaces replaced by underscores) when it is non-empty and unmapped.
C5_FoldedPassThrough ==
    (Called /\ IsLabel(inp)) =>
        /\ out.ok
        /\ out.s = (IF LabelText(inp) = <<>> THEN S_unknown
                    ELSE IF StatedTable(Folded(LabelText(inp))) # <<>>
                    THEN StatedTable(Folded(LabelText(inp)))
                    ELSE Folded(LabelText(inp)))

\* C5 witness: an unmapped non-empty label with a capital or a space has been
\* normalized to something other than itself.
C5_Witness ==
    /\ Called
    /\ op = "_normalize_outcome"
    /\ inp.t = "str"
    /\ inp.s # <<>>
    /\ StatedTable(Folded(inp.s)) = <<>>
    /\ Folded(inp.s) # inp.s
    /\ out.ok
    /\ out.s = Folded(inp.s)

\* ---- shots ----
OutcomeEnum == {S_goal, S_saved, S_blocked, S_off_target, S_unknown}

RequiredFields == {"x", "y", "minute", "xG"}

\* the raw records of a side: none when the side is absent or no list
SideRecs(shots, side) ==
    LET v == GetD(shots, side, PyList(<<>>))
    IN  IF v.t = "arr" THEN v.a ELSE <<>>

RawRecs(shots) == SideRecs(shots, "h") \o SideRecs(shots, "a")

\* the required field f of the record coerces: float() takes it and, for
\* the minute, int() takes that float (it takes no infinity and no nan)
Coerces(rec, f) ==
    IF f = "minute" THEN IntOfFloat(Get(rec, f)).ok ELSE ToFloat(Get(rec, f)).ok

\* no required field of the record fails numeric coercion (a missing one
\* does not)
NumericOk(rec) ==
    /\ rec.t = "obj"
    /\ \A f \in RequiredFields : HasKey(rec, f) => Coerces(rec, f)

\* every required field of the record is there and coercible
Complete(rec) ==
    /\ rec.t = "obj"
    /\ \A f \in RequiredFields : HasKey(rec, f) /\ Coerces(rec, f)

\* isPenalty and player_id, where str.isdigit() holds of them, are read by
\* int()
FlagsOk(rec) ==
    /\ rec.t = "obj"
    /\ \A f \in {"isPenalty", "player_id"} :
          (HasKey(rec, f) /\ StrIsDigit(Get(rec, f))) => ToInt(Get(rec, f)).ok

LabelOk(rec) == rec.t = "obj" /\ IsLabel(Get(rec, "result"))

WellLabelled(shots) ==
    \A i \in 1..Len(RawRecs(shots)) : LabelOk(RawRecs(shots)[i])

\* C4 as stated: every row's outcome is one of goal, saved, blocked,
\* off_target, unknown, and the label alone never drops a row: there are as
\* many rows as records whose required fields coerce.
C4_Claim ==
    (Called /\ out.ok) =>
        /\ \A i \in 1..Len(out.v) : out.v[i].outcome \in OutcomeEnum
        /\ Len(out.v) = Len(SelectSeq(RawRecs(inp.shots), NumericOk))

\* C7 as stated: the call never aborts, whatever the sides are; every record
\* whose required fields coerce gives one row, the others none, side h
\* before side a, each in input order.
C7_Claim ==
    (Called /\ WellLabelled(inp.shots)) =>
        /\ out.ok
        /\ Len(out.v) = Len(SelectSeq(RawRecs(inp.shots), NumericOk))
        /\ \A i \in 1..Len(out.v) :
              out.v[i].xg =
                  ToFloat(GetD(SelectSeq(RawRecs(inp.shots), NumericOk)[i],
                               "xG", PyFloat(Zero(FALSE)))).v

KeptComplete(rec) == Complete(rec) /\ LabelOk(rec) /\ FlagsOk(rec)

KeptShot(rec) == NumericOk(rec) /\ LabelOk(rec) /\ FlagsOk(rec)

\* C8 as stated: a record missing x, y, minute or xG gives no row, exactly as
\* one whose value fails coercion: the rows are those of the complete
\* records.
C8_Original ==
    (Called /\ out.ok) =>
        Len(out.v) = Len(SelectSeq(RawRecs(inp.shots), KeptComplete))

\* C8 amended: a record missing x, y, minute or xG is not dropped: the
\* missing value is taken as 0, so the row has x = 0.0, y = PITCH_WIDTH,
\* minute = 0 or xg = 0.0.  A record gives no row exactly when it is no
\* object, when a value that is present fails coercion (float() raises on
\* x, y, minute or xG, or the minute is an infinity or a nan), when its
\* label is a truthy non-string, or when isPenalty or player_id passes
\* str.isdigit() and int() raises on it.
C8_MissingDefaults ==
    (Called /\ out.ok) =>
        /\ Len(out.v) = Len(SelectSeq(RawRecs(inp.shots), KeptShot))
        /\ \A i \in 1..Len(out.v) :
              LET rec == SelectSeq(RawRecs(inp.shots), KeptShot)[i]
              IN  /\ ~HasKey(rec, "x") => out.v[i].x = Zero(FALSE)
                  /\ ~HasKey(rec, "y") => out.v[i].y = DblOfInt(PITCH_WIDTH)
                  /\ ~HasKey(rec, "minute") => out.v[i].minute = 0
                  /\ ~HasKey(rec, "xG") => out.v[i].xg = Zero(FALSE)

\* C8 witness: a side of one record without y has been normalized to a row
\* on the y = PITCH_WIDTH line.
C8_Witness ==
    /\ Called
    /\ op = "_normalize_shots"
    /\ out.ok
    /\ Len(SideRecs(inp.shots, "h")) = 1
    /\ SideRecs(inp.shots, "h")[1].t = "obj"
    /\ ~HasKey(SideRecs(inp.shots, "h")[1], "y")
    /\ Len(out.v) >= 1
    /\ out.v[1].y = DblOfInt(PITCH_WIDTH)

\* ---- matches ----
IntOrNone(v) ==
    IF IsNone(v) THEN None
    ELSE IF ToInt(v).ok THEN PyInt(ToInt(v).v)
    ELSE None

\* the round by presence: round if the record has it, else round_number,
\* else week
RoundStated(m) ==
    IF HasKey(m, "round") THEN IntOrNone(Get(m, "round"))
    ELSE IF HasKey(m, "round_number") THEN IntOrNone(Get(m, "round_number"))
    ELSE IntOrNone(Get(m, "week"))

\* the round by truth value: round unless it is falsy (absent, null, 0, ""),
\* else round_number unless it is falsy, else week
RoundAmended(m) ==
    IF Truthy(Get(m, "round")) THEN IntOrNone(Get(m, "round"))
    ELSE IF Truthy(Get(m, "round_number")) THEN IntOrNone(Get(m, "round_number"))
    ELSE IntOrNone(Get(m, "week"))

DateStated(m) ==
    IF Truthy(Get(m, "datetime")) THEN Get(m, "datetime")
    ELSE IF Truthy(Get(m, "date")) THEN Get(m, "date")
    ELSE EmptyStr

KeptMatch(m) == m.t = "obj" /\ ToInt(Get(m, "id")).ok

\* C9 as stated: the output is the records whose id coerces, in input
\* order; the round of each is that of round if present, else of
\* round_number, else of week, unknown when none is present or it does not
\* coerce; the date is datetime, else date, else "".
C9_Original ==
    (Called /\ inp.t = "arr") =>
        /\ out.ok
        /\ Len(out.v) = Len(SelectSeq(inp.a, KeptMatch))
        /\ \A i \in 1..Len(out.v) :
              LET m == SelectSeq(inp.a, KeptMatch)[i]
              IN  /\ out.v[i].id = ToInt(Get(m, "id")).v
                  /\ out.v[i].round = RoundStated(m)
                  /\ out.v[i].date = DateStated(m)

\* C9 amended: the output is the records whose id coerces, in input order;
\* the round of each is that of the first of round, round_number whose value
\* is truthy, else that of week, unknown when that value is absent or does
\* not coerce; the date is the first truthy of datetime, date, else "".
C9_TruthyFallback ==
    (Called /\ inp.t = "arr") =>
        /\ out.ok
        /\ Len(out.v) = Len(SelectSeq(inp.a, KeptMatch))
        /\ \A i \in 1..Len(out.v) :
              LET m == SelectSeq(inp.a, KeptMatch)[i]
              IN  /\ out.v[i].id = ToInt(Get(m, "id")).v
                  /\ out.v[i].round = RoundAmended(m)
                  /\ out.v[i].date = DateStated(m)

\* C9 witness: a record with round 0 or "" and round_number 5 has been kept
\* with round 5.
C9_Witness ==
    /\ Called
    /\ op = "_normalize_matches"
    /\ inp.t = "arr"
    /\ Len(inp.a) = 1
    /\ inp.a[1].t = "obj"
    /\ HasKey(inp.a[1], "round")
    /\ ~Truthy(Get(inp.a[1], "round"))
    /\ Truthy(Get(inp.a[1], "round_number"))
    /\ out.ok
    /\ Len(out.v) = 1
    /\ out.v[1].round = PyInt(5)

\* ---- search ----
RECURSIVE Preorder(_)
RECURSIVE PreorderAll(_)
\* the nodes of a document, a node before its children, the children in
\* stored order
PreorderAll(vs) ==
    IF vs = <<>> THEN <<>> ELSE Preorder(Head(vs)) \o PreorderAll(Tail(vs))

Preorder(x) == <<x>> \o PreorderAll(Children(x))

\* the first node in pre-order on which the predicate is true
FirstTrue(obj, p) ==
    LET nodes == Preorder(obj)
        hits == {i \in 1..Len(nodes) : ApplyPred(p, nodes[i]) = "true"}
    IN  IF hits = {} THEN None
        ELSE nodes[CHOOSE i \in hits : \A j \in hits : i <= j]

\* C10 as stated: the search returns the first node in pre-order on which
\* the predicate is true, absent if there is none, a raising predicate
\* counting as false on that node only.
C10_Claim == Called => out = FirstTrue(inp.obj, inp.pred)

(***************************************************************************)
(* Claims on the sort and the limit                                        *)
(***************************************************************************)
\* the place of ms[i] in the stable ascending order of the sort keys
Rank(ms, i) ==
    1 + Cardinality({j \in 1..Len(ms) \ {i} :
                        \/ KeyLess(SortKey(ms[j]), SortKey(ms[i]))
                        \/ /\ ~KeyLess(SortKey(ms[i]), SortKey(ms[j]))
                           /\ j < i})

StableSorted(ms) ==
    [r \in 1..Len(ms) |-> ms[CHOOSE i \in 1..Len(ms) : Rank(ms, i) = r]]


\* the last n of s, none for n <= 0
LastN(s, n) == SubSeq(s, Len(s) - Min(n, Len(s)) + 1, Len(s))

\* the selection as stated: the last min(N, count) whenever N is set
SelectionStated(ms, limit) ==
    IF IsNone(limit) THEN StableSorted(ms)
    ELSE LastN(StableSorted(ms), IF limit.i > 0 THEN limit.i ELSE 0)

\* the selection as amended: N = 0 is no limit, N < 0 drops the first -N
SelectionAmended(ms, limit) ==
    IF IsNone(limit) \/ limit.i = 0 THEN StableSorted(ms)
    ELSE IF limit.i > 0 THEN LastN(StableSorted(ms), limit.i)
    ELSE LastN(StableSorted(ms), Len(ms) - Min(-limit.i, Len(ms)))

\* C11 as stated: the step from the filtered list to the selected list sorts
\* by date ascending, ties in their prior order, and keeps the last
\* min(N, count) whenever a limit N is set, all when none is set.
C11_Original ==
    [][(pc = "sort" /\ pc' = "check") =>
          matches' = SelectionStated(matches, args.limit_matches)]_vars

\* C11 amended: the step sorts by date ascending, ties in their prior order,
\* and keeps the last min(N, count) when N >= 1, all when N is 0 or not
\* set, and all but the first min(-N, count) when N is negative.
C11_SortThenTail ==
    [][(pc = "sort" /\ pc' = "check") =>
          matches' = SelectionAmended(matches, args.limit_matches)]_vars

\* C11 witness: with a limit of 0 the four matches of the league page are all
\* selected, the two of one date in their prior order.
C11_Witness ==
    /\ pc = "check"
    /\ args.limit_matches = PyInt(0)
    /\ Len(matches) = 4
    /\ matches[2].id = 12
    /\ matches[3].id = 23

(***************************************************************************)
(* A single call of the block extraction                                   *)
(***************************************************************************)
MaxDecls == 3

BlockPages ==
    LET
        \* declarations of two names in the two forms; the text tells which one was
        \* taken
        BlockDecls ==
            {Decl("parse", k, t) : k \in {"shotsData", "other"},
                                   t \in {PyInt(1), PyInt(2), BadEscape, EmptyText}}
            \cup {Decl("literal", k, t) : k \in {"shotsData", "other"},
                                          t \in {PyInt(3), PyInt(4)}}
    IN
        {Page(d) : d \in SeqsUpTo(BlockDecls, MaxDecls)}

InitBlock ==
    /\ CallInit("_extract_json_block")
    /\ variant \in Variants
    /\ inp \in [page : BlockPages, key : {"shotsData", "none"}]

\* _extract_json_parse_block(html, key) or _extract_json_literal_block(html, key)
CallBlock ==
    /\ pc = "call"
    /\ op = "_extract_json_block"
    /\ out' = LegacyBlock(variant, inp.page, inp.key)
    /\ pc' = "return"
    /\ UNCHANGED <<mainVars, op, inp>>

SpecBlock == InitBlock /\ [][CallBlock]_vars

\* the first declaration of the name in the form, 0 for none
FirstOf(form) ==
    LET hits == {i \in 1..Len(inp.page.decls) :
                    inp.page.decls[i].form = form /\ inp.page.decls[i].key = inp.key}
    IN  IF hits = {} THEN 0 ELSE CHOOSE i \in hits : \A j \in hits : i <= j

TextAt(i) == inp.page.decls[i].text

\* the result is the literal block, absent when there is none
FromLiteral ==
    IF FirstOf("literal") = 0 THEN out.st = "none"
    ELSE out.st = "text" /\ out.text = TextAt(FirstOf("literal"))

\* C12 as stated: when an escaped block of the name is there the result
\* comes from the first of them and the literal form is not consulted;
\* else it is the first literal block of the name; else it is absent.
C12_Original ==
    Called =>
        IF FirstOf("parse") # 0
        THEN \/ out.st = "raise"
             \/ out.st = "text" /\ out.text = TextAt(FirstOf("parse"))
             \/ out.st = "none" /\ TextAt(FirstOf("parse")).t = "emptytext"
        ELSE FromLiteral

\* C12 amended: when an escaped block of the name is there and its text
\* decodes to something non-empty, the result is that text (the undecoded
\* text in understat_shots.py when decoding fails, a decoding error in
\* fetch_understat.py) and the literal form is not consulted; when there is
\* none, or the first one decodes to the empty string, the result is the
\* first literal block of the name; else it is absent.
C12_FirstNonEmptyWins ==
    Called =>
        IF FirstOf("parse") # 0 /\ TextAt(FirstOf("parse")).t # "emptytext"
        THEN IF TextAt(FirstOf("parse")).t = "badescape" /\ variant = "fetch_understat"
             THEN out.st = "raise"
             ELSE out.st = "text" /\ out.text = TextAt(FirstOf("parse"))
        ELSE FromLiteral

\* C12 witness: the escaped block decoded to the empty string and the
\* literal block of the same name, declared after another name's, was
\* returned.
C12_Witness ==
    /\ Called
    /\ op = "_extract_json_block"
    /\ FirstOf("parse") # 0
    /\ TextAt(FirstOf("parse")).t = "emptytext"
    /\ FirstOf("literal") > 1
    /\ out.st = "text"
    /\ out.text = TextAt(FirstOf("literal"))

(***************************************************************************)
(* A single call of the hydration blob extraction                          *)
(***************************************************************************)
MaxBlob == 5

\* the texts window.__NUXT__ = {...}; can hold between its braces
RawBlobs ==
    {[t |-> "raw", toks |-> <<"{">> \o b \o <<"}">>] :
        b \in SeqsUpTo({"[", "]", ",", ":", " ", "undefined", "k"}, MaxBlob)}

InitNuxt ==
    /\ CallInit("_extract_nuxt_json")
    /\ variant \in Variants
    /\ inp \in {Page(<<>>)} \cup {Page(<<Decl("nuxt", "__NUXT__", b)>>) : b \in RawBlobs}

CallNuxt ==
    /\ pc = "call"
    /\ op = "_extract_nuxt_json"
    /\ out' = ExtractNuxtJson(inp)
    /\ pc' = "return"
    /\ UNCHANGED <<mainVars, op, inp>>

SpecNuxt == InitNuxt /\ [][CallNuxt]_vars

\* the bracket that encloses place i: the last opener before i not yet
\* closed, "" for none
RECURSIVE Enclosing(_, _, _)
Enclosing(toks, i, stack) ==
    IF i = 1 THEN (IF stack = <<>> THEN "" ELSE stack[Len(stack)])
    ELSE Enclosing(Tail(toks), i - 1,
                   IF Head(toks) \in {"{", "["} THEN Append(stack, Head(toks))
                   ELSE IF Head(toks) \in {"}", "]"} /\ stack # <<>>
                   THEN SubSeq(stack, 1, Len(stack) - 1)
                   ELSE stack)

\* the last token before i that is no white space, "" for none
PrevTok(toks, i) ==
    LET before == {h \in 1..(i - 1) : toks[h] # " "}
    IN  IF before = {} THEN "" ELSE toks[CHOOSE h \in before : \A g \in before : g <= h]

\* place i holds a value: it follows a colon, opens an array, or follows a
\* comma inside an array
ValuePlace(toks, i) ==
    \/ PrevTok(toks, i) \in {":", "["}
    \/ PrevTok(toks, i) = "," /\ Enclosing(toks, i, <<>>) = "["

\* every undefined in a value place made null
NullifyValues(toks) ==
    [i \in 1..Len(toks) |->
        IF toks[i] = "undefined" /\ ValuePlace(toks, i) THEN "null" ELSE toks[i]]

\* the repair as stated, on the matched text
StatedRepair(toks) ==
    IF JsonLoadsRaw(NullifyValues(toks)).ok THEN JsonLoadsRaw(NullifyValues(toks)).v
    ELSE IF JsonLoadsRaw(StripTrailing(StripTrailing(NullifyValues(toks), "}"), "]")).ok
    THEN JsonLoadsRaw(StripTrailing(StripTrailing(NullifyValues(toks), "}"), "]")).v
    ELSE None

\* C13 as stated: the call never raises and returns the document parsed
\* from the text with every undefined in a value place made null, else from
\* that text with its trailing commas stripped, else absent; absent when
\* the page holds no blob.
C13_Claim ==
    Called =>
        out = IF inp.decls = <<>> THEN None ELSE StatedRepair(inp.decls[1].text.toks)

(***************************************************************************)
(* Claims on the order of the events of a run                              *)
(***************************************************************************)
\* the match page requests of a run, the retries of _get included
Gets == {i \in 1..Len(events) : events[i].e = "get_match"}

\* the fetches of the loop: the first request of each fetch_match_shots,
\* the one that is no retry after a backoff of _get
Fetches == {i \in Gets : events[i - 1].e # "sleep_in_get"}

\* C14 as stated: between any two match page fetches of the loop there is a
\* politeness delay (the time.sleep of the loop), whether the earlier fetch
\* ended in rows or in a warning.
C14_Claim ==
    \A i \in Fetches : \A j \in Fetches :
        i < j => \E k \in (i + 1)..(j - 1) : events[k].e = "sleep"

\* the ids of the matches fetched so far, in fetch order
Requested == [n \in 1..Cardinality(Fetches) |->
                 events[CHOOSE i \in Fetches : Cardinality({h \in Fetches : h <= i}) = n].id]

\* the selected list is there: the sort and the limit are done
Selected == pc \in {"check", "loop"} \/ (pc = "done" /\ result \in {"no_matches", "no_shots", "saved"})

\* the fetch that starts at event i ends at event e: e is its politeness
\* delay or its warning, and everything in between is a request or a backoff
\* of the same match
EndsAt(i, e) ==
    /\ events[e].e \in {"sleep", "warn"}
    /\ \A k \in i..e : events[k].id = events[i].id
    /\ \A k \in (i + 1)..(e - 1) : events[k].e \in {"get_match", "sleep_in_get"}

\* C15: the league page is requested first and every request of it comes
\* before any match page request, and no match page is requested before the
\* selected list is there; the matches fetched so far are the first ones of
\* the selected list, each fetched once and in its order, which is
\* ascending by date; every fetch (its request, and the retries of that
\* request) is ended by its own delay or warning before the next fetch
\* starts; a run that reaches the table has fetched every selected match;
\* and the table changes only in the loop and only by rows added at its end.
C15_Sequential ==
    /\ [](/\ events # <<>> => events[1] = Ev("get_league", 0)
          /\ \A i \in Gets : \A j \in 1..Len(events) :
                events[j].e = "get_league" => j < i
          /\ Gets # {} => Selected /\ pc \in {"loop", "done"}
          /\ Selected =>
                /\ \A i \in 1..Len(matches) : \A j \in 1..Len(matches) :
                      i < j => ~KeyLess(SortKey(matches[j]), SortKey(matches[i]))
                /\ Cardinality(Fetches) = idx - 1
                /\ Requested = [n \in 1..(idx - 1) |-> matches[n].id]
          /\ \A i \in Fetches :
                \E e \in (i + 1)..Len(events) :
                    /\ EndsAt(i, e)
                    /\ \A j \in Fetches : j > i => j > e
          /\ result \in {"no_shots", "saved"} => idx = Len(matches) + 1)
    /\ [][/\ Len(all_rows') >= Len(all_rows)
          /\ SubSeq(all_rows', 1, Len(all_rows)) = all_rows
          /\ all_rows' # all_rows => pc = "loop" /\ pc' = "loop"]_vars

\* C15 witness: a run has fetched the four matches of the league page, one
\* of them at a second attempt and one skipped with a warning, and written
\* the table.
C15_Witness ==
    /\ pc = "done"
    /\ result = "saved"
    /\ Len(matches) = 4
    /\ Cardinality(Fetches) = 4
    /\ Cardinality(Gets) > 4
    /\ warnings # <<>>

\* the other script
Other == IF variant = "fetch_understat" THEN "understat_shots" ELSE "fetch_understat"

\* two results of a match page fetch that a run cannot tell apart: both
\* raise (the match is skipped with a warning), or both return the same
\* rows found on the same path
SameShots(a, b) ==
    IF a.kind = "ok" \/ b.kind = "ok"
    THEN a.kind = b.kind /\ a.v = b.v /\ a.path = b.path
    ELSE TRUE

\* C16 as stated: on the league page and on every match page served in a
\* run, the other script does what this one does: the league fetch ends
\* the same way (same error kind, or same list on the same path), and each
\* match fetch is skipped by both or gives both the same rows on the same
\* path.
C16_Claim ==
    /\ pc # "start" =>
          FetchLeagueMatches(variant, html) = FetchLeagueMatches(Other, html)
    /\ \A i \in 1..Len(served) :
          SameShots(MatchShots[variant, matches[i].id, served[i]],
                    MatchShots[Other, matches[i].id, served[i]])

====
